---- MODULE Spec2Model ----
(***************************************************************************)
(* Model of the marketing pipeline of src/graph_nodes.py: the node         *)
(* functions (State -> partial update), the field-level merge of an update *)
(* into the running MarketingWorkFlowState, and the edges of               *)
(* workflow_builder.  Further specifications in the same module:           *)
(* SpecFilter (filter_matches_node alone), SpecInfluencer (influencer_app), *)
(* SpecIntent (intent_app) and SpecPanel (the panel discussion of          *)
(* src/multi-agnet.py).                                                    *)
(*                                                                         *)
(* Values.  Optional[T] is a sequence of length <= 1 (None == <<>>).       *)
(* A dict is a sequence of <<key, value>> pairs in insertion order with    *)
(* unique keys.  A str that the code parses (match_score) is a sequence of *)
(* one-character strings.  A float is an integer count of tenths.          *)
(* An entry of error_messages is a tuple of strings: the fixed text of the *)
(* f-string followed by the values it interpolates.                        *)
(***************************************************************************)
EXTENDS Integers, Sequences, FiniteSets, TLC

VARIABLES
    product_info,         \* Optional[Dict]
    influencer_data,      \* List[Dict]
    product_tags,         \* Optional[ProductTags]
    platform_analysis,    \* Optional[Dict[id, Dict[platform, result]]]
    influencer_profiles,  \* Optional[Dict[id, profile]]
    match_results,        \* Optional[List[MatchResult]]
    selected_influencers, \* Optional[List[MatchResult]]
    generated_emails,     \* Optional[List[GeneratedEmail]]
    error_messages,       \* List[str]
    match_threshold,      \* Optional float, in tenths
    pc,                   \* the executor's cursor: a node name, "END" or "raised"
    entry,                \* the node the run was entered at
    trace,                \* the nodes executed so far, in order
    llm_calls,            \* number of completion calls made so far
    matcher_returned,     \* what matcher_chain.invoke last gave back (None: not called)
    prompt_product_info,  \* product_input_for_prompt of the last matcher/email call
    email_subject,        \* IntentAnalysisState: Optional[str]
    email_body,           \* IntentAnalysisState: str
    analysis_result,      \* IntentAnalysisState: Optional[Dict]
    error_message,        \* IntentAnalysisState: Optional[str]
    data,                 \* multi-agnet.py: the module-level dict `data`
    messages,             \* the MessageGraph state: the messages of the run
    runs,                 \* number of invoke calls made on the graph
    jobs,                 \* product_crawl.py: the dict `jobs`, job id -> job
    task,                 \* per job: where its run_crawl_task call stands
    query,                \* the status query in progress, if any
    crawl_response,       \* what the last status query answered
    queries               \* number of status queries made

vars == <<product_info, influencer_data, product_tags, platform_analysis,
          influencer_profiles, match_results, selected_influencers,
          generated_emails, error_messages, match_threshold, pc, entry, trace,
          llm_calls, matcher_returned, prompt_product_info,
          email_subject, email_body, analysis_result, error_message,
          data, messages, runs, jobs, task, query, crawl_response, queries>>

\* what the panel discussion reads and writes
panel_vars == <<data, messages, runs>>

\* what the crawl endpoints and their background tasks read and write
crawl_vars == <<jobs, task, query, crawl_response, queries>>

\* the fields of the intent graph's state
intent_vars == <<email_subject, email_body, analysis_result, error_message>>

----------------------------------------------------------------------------
(* Bounds of the model *)

MaxInfluencers == 2
MaxResults == 2
MaxFilterResults == 2

----------------------------------------------------------------------------
(* Python values *)

None == <<>>
Some(x) == <<x>>

\* MarketingWorkFlowState.match_threshold defaults to 75.0, graph_state.py:88
DefaultThreshold == Some(750)
Get(opt, default) == IF opt = None THEN default ELSE opt[1]

\* bool(x) of an Optional[list] or Optional[dict]: None and the empty
\* container are both falsy
Truthy(opt) == opt # None /\ opt[1] # <<>>

DictKeys(d) == {d[i][1] : i \in DOMAIN d}
DictHas(d, k) == \E i \in DOMAIN d : d[i][1] = k
DictGet(d, k) == d[CHOOSE i \in DOMAIN d : d[i][1] = k][2]
\* d[k] = v: an existing key keeps its position, a new key goes last
DictPut(d, k, v) ==
    IF DictHas(d, k)
    THEN [i \in DOMAIN d |-> IF d[i][1] = k THEN <<k, v>> ELSE d[i]]
    ELSE Append(d, <<k, v>>)

IsPrefix(s, t) == Len(s) <= Len(t) /\ SubSeq(t, 1, Len(s)) = s

SeqsUpTo(S, n) == UNION {[1..k -> S] : k \in 0..n}

----------------------------------------------------------------------------
(* str.replace("%", "") and float(str), graph_nodes.py:298 *)

Digits == {"0", "1", "2", "3", "4", "5", "6", "7", "8", "9"}
DigitVal(c) == CASE c = "0" -> 0 [] c = "1" -> 1 [] c = "2" -> 2 [] c = "3" -> 3
                 [] c = "4" -> 4 [] c = "5" -> 5 [] c = "6" -> 6 [] c = "7" -> 7
                 [] c = "8" -> 8 [] c = "9" -> 9

\* s.replace(old, ""): every occurrence of the character is removed
IsNot(c, old) == c # old
Replace(s, old) ==
    LET Keep(c) == IsNot(c, old) IN SelectSeq(s, Keep)

RECURSIVE LStrip(_)
LStrip(s) == IF s # <<>> /\ Head(s) = " " THEN LStrip(Tail(s)) ELSE s
RECURSIVE RStrip(_)
RStrip(s) == IF s # <<>> /\ s[Len(s)] = " "
             THEN RStrip(SubSeq(s, 1, Len(s) - 1)) ELSE s

AllDigits(s) == \A i \in DOMAIN s : s[i] \in Digits

\* the digits of a str as numbers, and n zeros
DigitSeq(s) == [i \in DOMAIN s |-> DigitVal(s[i])]
Zeros(n) == [i \in 1..n |-> 0]
IsZero(d) == \A i \in DOMAIN d : d[i] = 0

\* float(s) for strings over digits, ".", "-", "+", " ", "%" and letters other
\* than those of inf/nan/e: surrounding whitespace is ignored, then an
\* optional sign, then digits with at most one "." and at least one digit.
\* Result: [ok |-> FALSE] for ValueError, else the decimal the string
\* writes: its sign, the digits before the point (ip) and after it (fp).
\* The double that float() rounds this decimal to is what FloatGE compares.
ParseFloat(s) ==
    LET t == RStrip(LStrip(s))
        signed == t # <<>> /\ Head(t) \in {"-", "+"}
        u == IF signed THEN Tail(t) ELSE t
        dots == {i \in DOMAIN u : u[i] = "."}
        ip == IF dots = {} THEN u
              ELSE SubSeq(u, 1, (CHOOSE i \in dots : TRUE) - 1)
        fp == IF dots = {} THEN <<>>
              ELSE SubSeq(u, (CHOOSE i \in dots : TRUE) + 1, Len(u))
        wellformed == /\ Cardinality(dots) <= 1
                      /\ AllDigits(ip) /\ AllDigits(fp)
                      /\ Len(ip) + Len(fp) >= 1
    IN  IF wellformed
        THEN [ok |-> TRUE, neg |-> signed /\ Head(t) = "-",
              ip |-> DigitSeq(ip), fp |-> DigitSeq(fp)]
        ELSE [ok |-> FALSE, neg |-> FALSE, ip |-> <<>>, fp |-> <<>>]

\* a threshold is counted in tenths; its decimal
RECURSIVE IntDigits(_)
IntDigits(n) == IF n < 10 THEN <<n>> ELSE Append(IntDigits(n \div 10), n % 10)
TenthsDecimal(tenths) == [ip |-> IntDigits(tenths \div 10), fp |-> <<tenths % 10>>]

\* the digits of x * 10^p for a decimal x with at most p digits after the point
Scaled(x, p) == x.ip \o x.fp \o Zeros(p - Len(x.fp))
PadLeft(d, n) == Zeros(n - Len(d)) \o d
Longer(m, n) == IF m >= n THEN m ELSE n

\* a >= b for digit sequences of one length: they are equal, or a has the
\* larger digit at the first place where they differ
DigitsGE(a, b) ==
    LET differ == {i \in DOMAIN a : a[i] # b[i]} IN
    \/ differ = {}
    \/ \E i \in differ : a[i] > b[i] /\ \A j \in differ : i <= j

\* a + b for digit sequences of one length n: n + 1 digits, place 0 the
\* carry out.  A carry comes into place i from a place j to its right whose
\* digits sum to 10 or more, through places whose digits sum to 9.
DigitsAdd(a, b) ==
    LET places == Len(a)
        carry(i) == \E j \in (i + 1)..places :
                        /\ a[j] + b[j] >= 10
                        /\ \A k \in (i + 1)..(j - 1) : a[k] + b[k] = 9
        digit(i) == IF i = 0 THEN (IF carry(0) THEN 1 ELSE 0)
                    ELSE (a[i] + b[i] + (IF carry(i) THEN 1 ELSE 0)) % 10
    IN  <<digit(0)>> \o [m \in 1..places |-> digit(m)]

\* x >= y and x + y for non-negative decimals [ip, fp]
DecimalGE(x, y) ==
    LET p == Longer(Len(x.fp), Len(y.fp))
        n == Longer(Len(Scaled(x, p)), Len(Scaled(y, p)))
    IN  DigitsGE(PadLeft(Scaled(x, p), n), PadLeft(Scaled(y, p), n))
DecimalAdd(x, y) ==
    LET p == Longer(Len(x.fp), Len(y.fp))
        n == Longer(Len(Scaled(x, p)), Len(Scaled(y, p)))
        sum == DigitsAdd(PadLeft(Scaled(x, p), n), PadLeft(Scaled(y, p), n))
    IN  [ip |-> SubSeq(sum, 1, n + 1 - p), fp |-> SubSeq(sum, n + 2 - p, n + 1)]

\* the digits after the point of 2^-k, from 2^-47 on (5^47 in 47 places):
\* halving a decimal that ends in 5 carries a 1 out of every odd digit and
\* appends a 5
HalfPow47 ==
    <<0, 0, 0, 0, 0, 0, 0, 0, 0, 0, 0, 0, 0, 0, 7, 1, 0, 5, 4, 2, 7, 3, 5, 7, 6,
      0, 1, 0, 0, 1, 8, 5, 8, 7, 1, 1, 2, 4, 2, 6, 7, 5, 7, 8, 1, 2, 5>>
Halve(d) ==
    [i \in 1..Len(d) |->
        ((IF i = 1 THEN 0 ELSE d[i - 1] % 2) * 10 + d[i]) \div 2] \o <<5>>
RECURSIVE HalfPow(_)
HalfPow(k) == IF k = 47 THEN HalfPow47 ELSE Halve(HalfPow(k - 1))

RECURSIVE Pow2(_)
Pow2(n) == IF n = 0 THEN 1 ELSE 2 * Pow2(n - 1)

\* A double has 53 significant bits.  For a threshold t > 0 that is a
\* multiple of 0.5 (a double itself), the decimals that float() rounds to t
\* or above are those >= t - 2^-k, half the gap to the double below t:
\* with 2^(b-1) <= t < 2^b the gap is 2^(b-53), and 2^(b-54) where t is the
\* power of two itself.  A tie rounds to the even mantissa, which is t's.
HalfGapBelow(tenths) ==
    LET b == CHOOSE e \in 0..7 : 5 * Pow2(e) <= tenths /\ tenths < 5 * Pow2(e + 1)
    IN  [ip |-> <<0>>,
         fp |-> HalfPow(IF tenths = 5 * Pow2(b) THEN 55 - b ELSE 54 - b)]

\* half the smallest positive double, 2^-1074: a negative decimal no larger
\* in magnitude rounds to -0.0, and -0.0 >= 0.0 holds.  2^-1075 is 5^1075
\* behind 323 zeros after the point; these are the digits of 5^1075.
HalfSmallestDigits ==
    <<
       2, 4, 7, 0, 3, 2, 8, 2, 2, 9, 2, 0, 6, 2, 3, 2, 7, 2, 0, 8, 8, 2, 8, 4, 3,
       9, 6, 4, 3, 4, 1, 1, 0, 6, 8, 6, 1, 8, 2, 5, 2, 9, 9, 0, 1, 3, 0, 7, 1, 6,
       2, 3, 8, 2, 2, 1, 2, 7, 9, 2, 8, 4, 1, 2, 5, 0, 3, 3, 7, 7, 5, 3, 6, 3, 5,
       1, 0, 4, 3, 7, 5, 9, 3, 2, 6, 4, 9, 9, 1, 8, 1, 8, 0, 8, 1, 7, 9, 9, 6, 1,
       8, 9, 8, 9, 8, 2, 8, 2, 3, 4, 7, 7, 2, 2, 8, 5, 8, 8, 6, 5, 4, 6, 3, 3, 2,
       8, 3, 5, 5, 1, 7, 7, 9, 6, 9, 8, 9, 8, 1, 9, 9, 3, 8, 7, 3, 9, 8, 0, 0, 5,
       3, 9, 0, 9, 3, 9, 0, 6, 3, 1, 5, 0, 3, 5, 6, 5, 9, 5, 1, 5, 5, 7, 0, 2, 2,
       6, 3, 9, 2, 2, 9, 0, 8, 5, 8, 3, 9, 2, 4, 4, 9, 1, 0, 5, 1, 8, 4, 4, 3, 5,
       9, 3, 1, 8, 0, 2, 8, 4, 9, 9, 3, 6, 5, 3, 6, 1, 5, 2, 5, 0, 0, 3, 1, 9, 3,
       7, 0, 4, 5, 7, 6, 7, 8, 2, 4, 9, 2, 1, 9, 3, 6, 5, 6, 2, 3, 6, 6, 9, 8, 6,
       3, 6, 5, 8, 4, 8, 0, 7, 5, 7, 0, 0, 1, 5, 8, 5, 7, 6, 9, 2, 6, 9, 9, 0, 3,
       7, 0, 6, 3, 1, 1, 9, 2, 8, 2, 7, 9, 5, 5, 8, 5, 5, 1, 3, 3, 2, 9, 2, 7, 8,
       3, 4, 3, 3, 8, 4, 0, 9, 3, 5, 1, 9, 7, 8, 0, 1, 5, 5, 3, 1, 2, 4, 6, 5, 9,
       7, 2, 6, 3, 5, 7, 9, 5, 7, 4, 6, 2, 2, 7, 6, 6, 4, 6, 5, 2, 7, 2, 8, 2, 7,
       2, 2, 0, 0, 5, 6, 3, 7, 4, 0, 0, 6, 4, 8, 5, 4, 9, 9, 9, 7, 7, 0, 9, 6, 5,
       9, 9, 4, 7, 0, 4, 5, 4, 0, 2, 0, 8, 2, 8, 1, 6, 6, 2, 2, 6, 2, 3, 7, 8, 5,
       7, 3, 9, 3, 4, 5, 0, 7, 3, 6, 3, 3, 9, 0, 0, 7, 9, 6, 7, 7, 6, 1, 9, 3, 0,
       5, 7, 7, 5, 0, 6, 7, 4, 0, 1, 7, 6, 3, 2, 4, 6, 7, 3, 6, 0, 0, 9, 6, 8, 9,
       5, 1, 3, 4, 0, 5, 3, 5, 5, 3, 7, 4, 5, 8, 5, 1, 6, 6, 6, 1, 1, 3, 4, 2, 2,
       3, 7, 6, 6, 6, 7, 8, 6, 0, 4, 1, 6, 2, 1, 5, 9, 6, 8, 0, 4, 6, 1, 9, 1, 4,
       4, 6, 7, 2, 9, 1, 8, 4, 0, 3, 0, 0, 5, 3, 0, 0, 5, 7, 5, 3, 0, 8, 4, 9, 0,
       4, 8, 7, 6, 5, 3, 9, 1, 7, 1, 1, 3, 8, 6, 5, 9, 1, 6, 4, 6, 2, 3, 9, 5, 2,
       4, 9, 1, 2, 6, 2, 3, 6, 5, 3, 8, 8, 1, 8, 7, 9, 6, 3, 6, 2, 3, 9, 3, 7, 3,
       2, 8, 0, 4, 2, 3, 8, 9, 1, 0, 1, 8, 6, 7, 2, 3, 4, 8, 4, 9, 7, 6, 6, 8, 2,
       3, 5, 0, 8, 9, 8, 6, 3, 3, 8, 8, 5, 8, 7, 9, 2, 5, 6, 2, 8, 3, 0, 2, 7, 5,
       5, 9, 9, 5, 6, 5, 7, 5, 2, 4, 4, 5, 5, 5, 0, 7, 2, 5, 5, 1, 8, 9, 3, 1, 3,
       6, 9, 0, 8, 3, 6, 2, 5, 4, 7, 7, 9, 1, 8, 6, 9, 4, 8, 6, 6, 7, 9, 9, 4, 9,
       6, 8, 3, 2, 4, 0, 4, 9, 7, 0, 5, 8, 2, 1, 0, 2, 8, 5, 1, 3, 1, 8, 5, 4, 5,
       1, 3, 9, 6, 2, 1, 3, 8, 3, 7, 7, 2, 2, 8, 2, 6, 1, 4, 5, 4, 3, 7, 6, 9, 3,
       4, 1, 2, 5, 3, 2, 0, 9, 8, 5, 9, 1, 3, 2, 7, 6, 6, 7, 2, 3, 6, 3, 2, 8, 1,
       2, 5 >>
HalfSmallest == [ip |-> <<0>>, fp |-> Zeros(323) \o HalfSmallestDigits]

\* float(s) >= threshold for the parsed decimal score; the threshold is
\* counted in tenths, lies in 0..100 and is a multiple of 0.5
FloatGE(score, tenths) ==
    LET v == [ip |-> score.ip, fp |-> score.fp] IN
    IF score.neg /\ ~IsZero(v.ip \o v.fp)
    THEN tenths = 0 /\ Len(v.fp) > 323 /\ DecimalGE(HalfSmallest, v)
    ELSE tenths = 0 \/ DecimalGE(DecimalAdd(v, HalfGapBelow(tenths)), TenthsDecimal(tenths))

\* the decimal the string writes is >= the threshold, or equal to it
ExactGE(score, tenths) ==
    IF score.neg /\ ~IsZero(score.ip \o score.fp) THEN FALSE
    ELSE DecimalGE([ip |-> score.ip, fp |-> score.fp], TenthsDecimal(tenths))
ExactEQ(score, tenths) ==
    /\ ExactGE(score, tenths)
    /\ DecimalGE(TenthsDecimal(tenths), [ip |-> score.ip, fp |-> score.fp])

\* score_value >= threshold, line 299
ScoreAtLeast(score, threshold) == FloatGE(score, threshold)

----------------------------------------------------------------------------
(* The state record and the merge of a partial update *)

StateRec ==
    [product_info |-> product_info, influencer_data |-> influencer_data,
     product_tags |-> product_tags, platform_analysis |-> platform_analysis,
     influencer_profiles |-> influencer_profiles, match_results |-> match_results,
     selected_influencers |-> selected_influencers,
     generated_emails |-> generated_emails, error_messages |-> error_messages,
     match_threshold |-> match_threshold]

\* mutant: the update replaces the state, a field it does not name falls
\* back to its default
Merge_Replace(st, update) ==
    [f \in DOMAIN st |->
        IF f \in DOMAIN update THEN update[f]
        ELSE IF f = "match_threshold" THEN DefaultThreshold ELSE <<>>]
\* field-level overwrite: a field the update names takes the update's value,
\* every other field keeps its value; a key that is no field of the state
\* schema is not written
Merge(st, update) ==
    [f \in DOMAIN st |-> IF f \in DOMAIN update THEN update[f] ELSE st[f]]

\* what a node hands back: a normal return with its update, or an exception
Returned(update, calls) == [raised |-> FALSE, update |-> update, calls |-> calls]
Raised(calls) == [raised |-> TRUE, update |-> [error_messages |-> <<>>], calls |-> calls]

\* the fields of each state class, graph_state.py
MarketingWorkFlowStateFields ==
    {"product_info", "influencer_data", "product_tags", "platform_analysis",
     "influencer_profiles", "match_results", "selected_influencers",
     "generated_emails", "error_messages", "match_threshold"}
ProductAnalysisStateFields == {"product_info", "product_tags", "error_message"}

----------------------------------------------------------------------------
(* analyze_product_node, graph_nodes.py:39-111 *)

\* ProductTags.model_dump(): the six fields of the class
ProductTagsObj ==
    << <<"FeatureTags", "f">>, <<"AudienceTags", "a">>,
       <<"UsageScenarioTags", "u">>, <<"coreContentDirection", "c">>,
       <<"overallPersonaAndStyle", "p">>, <<"mainAudience", "m">> >>

\* the keys of ProductTags, in the order of the class
ProductTagsKeys == {ProductTagsObj[i][1] : i \in DOMAIN ProductTagsObj}

\* a dict the chain parsed that holds just the given keys of ProductTags
ParsedTags(keys) ==
    LET has(pair) == pair[1] \in keys
    IN  SelectSeq(ProductTagsObj, has)

\* ProductTags(**d).model_dump(): every field of the class is defaulted
\* (graph_state.py:46-51), so a key the dict lacks comes out with its default
ModelDump(d) ==
    [i \in DOMAIN ProductTagsObj |->
        IF DictHas(d, ProductTagsObj[i][1]) THEN <<ProductTagsObj[i][1], DictGet(d, ProductTagsObj[i][1])>>
        ELSE <<ProductTagsObj[i][1], "">>]

\* a parsed JSON value that is no dict (a str, a list), written as its text;
\* it is kept under a key that no dict holds, which tells it from a dict
NotADict(text) == << <<"<not a dict>", text>> >>
IsDict(d) == ~DictHas(d, "<not a dict>")

\* what chain.invoke gives, line 96: JsonOutputParser(pydantic_object=...)
\* parses JSON and checks neither the type nor a key, so the value is a dict
\* that may hold any of the keys, null, or another JSON value; or the call
\* or the parse raises.  value: the Optional value returned.
ProductResponse(kind, keys) ==
    [kind |-> kind,
     value |-> IF kind = "dict" THEN Some(ParsedTags(keys))
               ELSE IF kind = "other" THEN Some(NotADict("text"))
               ELSE None]
ProductResponsesAll ==
    {ProductResponse(kind, {}) : kind \in {"exception", "none", "other"}}
        \cup {[kind |-> "other", value |-> Some(NotADict("['FeatureTags']"))]}
        \cup {ProductResponse("dict", keys) : keys \in SUBSET ProductTagsKeys}
\* the responses drawn in a run of the whole workflow
ProductResponses ==
    {ProductResponse(kind, {}) : kind \in {"exception", "none", "other"}}
        \cup {ProductResponse("dict", ProductTagsKeys),
              ProductResponse("dict", {"FeatureTags"})}

\* fields: the attributes of the state object handed to the node;
\* error_message: the value of state.error_message where the class has it.
\* Line 42 reads state.error_message before anything else: on a state class
\* without that attribute the read raises AttributeError.
analyze_product_node(fields, st_product_info, st_error_message, returned) ==
    IF "error_message" \notin fields
    THEN Raised(0)
    ELSE LET \* state.error_message or []: a non-empty str stays a str
             is_str == st_error_message # None /\ st_error_message[1] # ""
             current_errors == <<>>
         IN
         IF ~Truthy(st_product_info)
         THEN IF is_str THEN Raised(0)   \* str + list: TypeError, line 47
              ELSE Returned([product_tags |-> None,
                        error_messages |-> Append(current_errors,
                            <<"Product analysis error: product_info is missing in state.">>)], 0)
         ELSE IF returned.kind # "exception"
         THEN Returned([product_tags |-> returned.value,
                        error_messages |-> IF is_str THEN st_error_message[1]
                                           ELSE current_errors], 1)
         ELSE IF is_str THEN Raised(1)   \* str + list: TypeError, line 111
         ELSE Returned([product_tags |-> None,
                        error_messages |-> Append(current_errors,
                            <<"Product analysis LLM/parsing exception">>)], 1)

----------------------------------------------------------------------------
(* analyze_influencers_platforms_node, graph_nodes.py:113-156 *)

PlatformAnalysisResult(influencer_name, platform_name) ==
    <<"PlatformAnalysisResult", influencer_name, platform_name>>

\* what a chain ending in JsonOutputParser(pydantic_object=...) gives (lines
\* 121, 145 and 171, 195): the parser reads JSON and validates no field, so
\* the call raises ("fail") or returns the parsed value, which is a dict
\* with every field of the class ("ok"), null ("none") or any other JSON
\* value, such as a dict with fields missing or a list ("other")
CallOutcomes == {"ok", "none", "other", "fail"}

\* the value the chain returned, given the complete result of the call
ChainValue(outcome, complete) ==
    IF outcome = "ok" THEN complete
    ELSE IF outcome = "none" THEN None
    ELSE <<"<fields missing>">>

\* a value that validates as the PlatformAnalysisResult of
\* Dict[str, Dict[str, PlatformAnalysisResult]], graph_state.py:79
IsPlatformAnalysisResult(v) == v # None /\ v[1] = "PlatformAnalysisResult"

\* the (influencer index, platform index) pairs of influencer_data
PlatformPairs(influencer_data_list) ==
    UNION {{<<i, j>> : j \in DOMAIN influencer_data_list[i].platforms} : i \in DOMAIN influencer_data_list}

\* body of the inner loop, lines 132-151; acc = [current, errors, calls]
PlatformBody(influencer_name, platform_name, content_list_dicts, outcome, acc) ==
    IF content_list_dicts = <<>>
    THEN acc
    ELSE IF outcome # "fail"
    THEN [acc EXCEPT !.current = DictPut(@, platform_name,
                        ChainValue(outcome,
                            PlatformAnalysisResult(influencer_name, platform_name))),
                     !.calls = @ + 1]
    ELSE [acc EXCEPT !.errors = Append(@, <<"Platform analysis error for",
                                            influencer_name, platform_name>>),
                     !.calls = @ + 1]

RECURSIVE PlatformLoop(_, _, _, _, _, _)
PlatformLoop(influencer_name, platforms, i, j, oc, acc) ==
    IF j > Len(platforms) THEN acc
    ELSE PlatformLoop(influencer_name, platforms, i, j + 1, oc,
             PlatformBody(influencer_name, platforms[j][1], platforms[j][2],
                          oc[<<i, j>>], acc))

\* body of the outer loop, lines 124-153; acc = [all, errors, calls]
InfluencerBody(influencer_dict, i, oc, acc) ==
    LET influencer_id == Get(influencer_dict.influencerId, "UnknownId")
        influencer_name == Get(influencer_dict.influencerName, "UnknownName")
        r == PlatformLoop(influencer_name, influencer_dict.platforms, i, 1, oc,
                 [current |-> <<>>, errors |-> acc.errors, calls |-> acc.calls])
    IN  [all |-> DictPut(acc.all, influencer_id, r.current),
         errors |-> r.errors, calls |-> r.calls]

RECURSIVE InfluencerLoop(_, _, _, _)
InfluencerLoop(influencer_data_list, i, oc, acc) ==
    IF i > Len(influencer_data_list) THEN acc
    ELSE InfluencerLoop(influencer_data_list, i + 1, oc, InfluencerBody(influencer_data_list[i], i, oc, acc))

\* mutant: every failed call is issued a second time
analyze_influencers_platforms_node_RetryFailed(st, oc) ==
    LET r == InfluencerLoop(st.influencer_data, 1, oc,
                 [all |-> <<>>, errors |-> st.error_messages, calls |-> 0])
    IN  Returned([platform_analysis |-> Some(r.all), error_messages |-> r.errors],
                 r.calls + (Len(r.errors) - Len(st.error_messages)))

analyze_influencers_platforms_node(st, oc) ==
    LET r == InfluencerLoop(st.influencer_data, 1, oc,
                 [all |-> <<>>, errors |-> st.error_messages, calls |-> 0])
    IN  Returned([platform_analysis |-> Some(r.all), error_messages |-> r.errors],
                 r.calls)

----------------------------------------------------------------------------
(* generate_influencer_profiles_node, graph_nodes.py:158-202 *)

InfluencerProfile(influencer_id, influencer_name) ==
    <<"InfluencerProfile", influencer_id, influencer_name>>

\* a value that validates as the InfluencerProfile of
\* Dict[str, InfluencerProfile], graph_state.py:80
IsInfluencerProfile(v) == v # None /\ v[1] = "InfluencerProfile"

\* line 172: the dict comprehension keeps, for an id, the name of the last
\* entry of influencer_data that carries it; line 175 supplies the default
RECURSIVE NameMap(_, _, _)
NameMap(influencer_data_list, i, acc) ==
    IF i > Len(influencer_data_list) THEN acc
    ELSE NameMap(influencer_data_list, i + 1,
             DictPut(acc, Get(influencer_data_list[i].influencerId, "UnknownId"),
                     Get(influencer_data_list[i].influencerName, "UnknownName")))

\* f"Unknown ID: {influencer_id}", spelled out for the ids of the model
UnknownIdName(influencer_id) ==
    CASE influencer_id = "a" -> "Unknown ID: a"
      [] influencer_id = "b" -> "Unknown ID: b"
      [] influencer_id = "UnknownId" -> "Unknown ID: UnknownId"
      [] OTHER -> "Unknown ID: x"

\* body of the loop, lines 174-200; acc = [profiles, errors, calls]
ProfileBody(influencer_id, platform_details, names, outcome, acc) ==
    LET influencer_name == IF DictHas(names, influencer_id)
                           THEN DictGet(names, influencer_id)
                           ELSE UnknownIdName(influencer_id)
    IN  IF platform_details = <<>>
        THEN [acc EXCEPT !.errors = Append(@,
                  <<"No platform data to generate profile for", influencer_name>>)]
        ELSE IF outcome # "fail"
        THEN [acc EXCEPT !.profiles = DictPut(@, influencer_id,
                            ChainValue(outcome,
                                InfluencerProfile(influencer_id, influencer_name))),
                         !.calls = @ + 1]
        ELSE [acc EXCEPT !.errors = Append(@,
                  <<"Profile generation error for", influencer_name>>),
                         !.calls = @ + 1]

RECURSIVE ProfileLoop(_, _, _, _, _)
ProfileLoop(pa, k, names, oc, acc) ==
    IF k > Len(pa) THEN acc
    ELSE ProfileLoop(pa, k + 1, names, oc,
             ProfileBody(pa[k][1], pa[k][2], names, oc[k], acc))

generate_influencer_profiles_node(st, oc) ==
    IF ~Truthy(st.platform_analysis)
    THEN Returned([influencer_profiles |-> Some(<<>>),
                   error_messages |-> Append(st.error_messages,
                       <<"Cannot generate profiles: No platform analysis data available.">>)], 0)
    ELSE LET pa == st.platform_analysis[1]
             \* line 185 calls model_dump() on every value of a non-empty
             \* sub-map, outside the try block: a value that is no
             \* PlatformAnalysisResult raises AttributeError
             NoModelDump(k) ==
                 \E j \in DOMAIN pa[k][2] : ~IsPlatformAnalysisResult(pa[k][2][j][2])
             upto == IF \E k \in DOMAIN pa : NoModelDump(k)
                     THEN (CHOOSE k \in DOMAIN pa :
                              /\ NoModelDump(k)
                              /\ \A h \in 1..(k - 1) : ~NoModelDump(h)) - 1
                     ELSE Len(pa)
             r == ProfileLoop(SubSeq(pa, 1, upto), 1,
                      NameMap(st.influencer_data, 1, <<>>), oc,
                      [profiles |-> <<>>, errors |-> st.error_messages, calls |-> 0])
         IN  IF upto < Len(pa)
             THEN Raised(r.calls)
             ELSE Returned([influencer_profiles |-> Some(r.profiles),
                            error_messages |-> r.errors], r.calls)

----------------------------------------------------------------------------
(* match_influencers_node, graph_nodes.py:206-282 *)

\* dict.update: keys of the second dict overwrite those of the first
RECURSIVE DictUpdate(_, _)
DictUpdate(d, e) ==
    IF e = <<>> THEN d ELSE DictUpdate(DictPut(d, e[1][1], e[1][2]), Tail(e))

MatchResultFields == {"influencerId", "influencerName", "match_score", "match_rationale"}

\* MatchResult(**item_dict): all four fields are required
IsValidMatchItem(item_dict) == \A f \in MatchResultFields : item_dict[f] # None
MatchResult(item_dict) == [f \in MatchResultFields |-> item_dict[f][1]]

\* body of the loop over the returned list, lines 266-273; acc = [list, errors]
MatchItemBody(item_dict, acc) ==
    IF IsValidMatchItem(item_dict)
    THEN [acc EXCEPT !.list = Append(@, MatchResult(item_dict))]
    ELSE [acc EXCEPT !.errors = Append(@,
              <<"Matcher returned an item with invalid format", item_dict>>)]

RECURSIVE MatchItemLoop(_, _, _)
MatchItemLoop(items, i, acc) ==
    IF i > Len(items) THEN acc
    ELSE MatchItemLoop(items, i + 1, MatchItemBody(items[i], acc))

\* mutant: a missing precondition ends the node silently, no error appended
match_influencers_node_SilentShortCircuit(st, response) ==
    LET errors == st.error_messages IN
    IF st.product_tags = None \/ ~Truthy(st.influencer_profiles)
    THEN Returned([match_results |-> Some(<<>>), error_messages |-> errors], 0)
    ELSE IF st.product_info = None
    THEN Raised(0)
    ELSE IF response.kind = "exception"
    THEN Returned([match_results |-> Some(<<>>),
                   error_messages |-> Append(errors, <<"Matcher error">>)], 1)
    ELSE IF response.kind = "list" /\ response.items # <<>>
    THEN LET r == MatchItemLoop(response.items, 1, [list |-> <<>>, errors |-> errors])
         IN  Returned([match_results |-> Some(r.list), error_messages |-> r.errors], 1)
    ELSE Returned([match_results |-> Some(<<>>),
                   error_messages |-> Append(errors, <<"Matcher did not return a valid list.">>)], 1)

\* lines 227-228: product_input_for_prompt, the product context the matcher
\* sends; called where product_info and product_tags are both present
MatcherProductInput(st) ==
    DictUpdate(st.product_info[1], ModelDump(st.product_tags[1]))

\* response: [kind |-> "exception" | "notlist" | "list", items |-> the list]
match_influencers_node(st, response) ==
    LET errors == st.error_messages IN
    IF st.product_tags = None
    THEN Returned([match_results |-> Some(<<>>),
                   error_messages |-> Append(errors, <<"Cannot match: Product tags missing.">>)], 0)
    ELSE IF ~Truthy(st.influencer_profiles)
    THEN Returned([match_results |-> Some(<<>>),
                   error_messages |-> Append(errors, <<"Cannot match: Influencer profiles missing.">>)], 0)
    ELSE IF st.product_info = None
    THEN Raised(0)   \* None.copy(), line 227
    ELSE IF response.kind = "exception"
    THEN Returned([match_results |-> Some(<<>>),
                   error_messages |-> Append(errors, <<"Matcher error">>)], 1)
    ELSE IF response.kind = "list" /\ response.items # <<>>
    THEN LET r == MatchItemLoop(response.items, 1, [list |-> <<>>, errors |-> errors])
         IN  Returned([match_results |-> Some(r.list), error_messages |-> r.errors], 1)
    ELSE Returned([match_results |-> Some(<<>>),
                   error_messages |-> Append(errors, <<"Matcher did not return a valid list.">>)], 1)

----------------------------------------------------------------------------
(* filter_matches_node, graph_nodes.py:284-307 *)

\* mutant: a strict comparison, which drops a score equal to the threshold
MeetsThreshold_Strict(score_value, threshold) ==
    ExactGE(score_value, threshold) /\ ~ExactEQ(score_value, threshold)

\* line 299
MeetsThreshold(score_value, threshold) == ScoreAtLeast(score_value, threshold)

\* line 298
ScoreValue(score_str) == ParseFloat(Replace(score_str, "%"))

\* body of the loop, lines 295-304; acc = [selected, errors]
FilterBody(result_obj, threshold, acc) ==
    LET score_value == ScoreValue(result_obj.match_score) IN
    \* float() raises ValueError; a float >= None raises TypeError: line 300
    \* catches both
    IF ~score_value.ok \/ threshold = None
    THEN [acc EXCEPT !.errors = Append(@,
              <<"Invalid match score format for influencer",
                result_obj.influencerId, result_obj.match_score>>)]
    ELSE IF MeetsThreshold(score_value, threshold[1])
    THEN [acc EXCEPT !.selected = Append(@, result_obj)]
    ELSE acc

\* mutant: the loop stops at the first score that does not parse
RECURSIVE FilterLoop_Abort(_, _, _, _)
FilterLoop_Abort(list, i, threshold, acc) ==
    IF i > Len(list) THEN acc
    ELSE IF ~ScoreValue(list[i].match_score).ok
    THEN FilterBody(list[i], threshold, acc)
    ELSE FilterLoop_Abort(list, i + 1, threshold, FilterBody(list[i], threshold, acc))

RECURSIVE FilterLoop(_, _, _, _)
FilterLoop(list, i, threshold, acc) ==
    IF i > Len(list) THEN acc
    ELSE FilterLoop(list, i + 1, threshold, FilterBody(list[i], threshold, acc))

filter_matches_node(st) ==
    IF ~Truthy(st.match_results)
    THEN Returned([selected_influencers |-> Some(<<>>),
                   error_messages |-> st.error_messages], 0)
    ELSE LET r == FilterLoop(st.match_results[1], 1, st.match_threshold,
                      [selected |-> <<>>, errors |-> st.error_messages])
         IN  Returned([selected_influencers |-> Some(r.selected),
                       error_messages |-> r.errors], 0)

----------------------------------------------------------------------------
(* generate_emails_node, graph_nodes.py:309-375 *)

EmailOutcomes == {"ok", "invalid", "exception"}

GeneratedEmail(influencer_id, influencer_name) ==
    [influencerId |-> influencer_id, influencerName |-> influencer_name,
     email_subject |-> "subject", email_body |-> "body"]

\* mutant: the profile lookup is skipped, every selected influencer is mailed
EmailBody_NoProfileCheck(influencer_match_obj, profiles, outcome, acc) ==
    IF outcome = "ok"
    THEN [acc EXCEPT !.emails = Append(@, [influencerId |-> influencer_match_obj.influencerId,
                                           influencerName |-> influencer_match_obj.influencerName,
                                           email_subject |-> "subject", email_body |-> "body"]),
                     !.calls = @ + 1]
    ELSE [acc EXCEPT !.errors = Append(@, <<"Email generation error for",
                                            influencer_match_obj.influencerName>>),
                     !.calls = @ + 1]

\* body of the loop, lines 333-373; acc = [emails, errors, calls]
EmailBody(influencer_match_obj, profiles, outcome, acc) ==
    LET influencer_id == influencer_match_obj.influencerId
        influencer_name == influencer_match_obj.influencerName
    IN  IF ~DictHas(profiles, influencer_id)
        THEN [acc EXCEPT !.errors = Append(@,
                  <<"Profile missing for selected influencer", influencer_name>>)]
        ELSE IF outcome = "ok"
        THEN [acc EXCEPT !.emails = Append(@, GeneratedEmail(influencer_id, influencer_name)),
                         !.calls = @ + 1]
        ELSE IF outcome = "invalid"
        THEN [acc EXCEPT !.errors = Append(@, <<"Email generation failed for", influencer_name>>),
                         !.calls = @ + 1]
        ELSE [acc EXCEPT !.errors = Append(@, <<"Email generation error for", influencer_name>>),
                         !.calls = @ + 1]

RECURSIVE EmailLoop(_, _, _, _, _)
EmailLoop(selected, i, profiles, oc, acc) ==
    IF i > Len(selected) THEN acc
    ELSE EmailLoop(selected, i + 1, profiles, oc,
             EmailBody(selected[i], profiles, oc[i], acc))

\* lines 329-331: the product context of the email prompt
EmailProductInput(st) ==
    IF st.product_tags # None
    THEN DictUpdate(st.product_info[1], ModelDump(st.product_tags[1]))
    ELSE st.product_info[1]

\* mutant: the errors of the loop are not returned
generate_emails_node_ErrorsDropped(st, oc) ==
    IF ~Truthy(st.selected_influencers)
    THEN Returned([generated_emails |-> Some(<<>>),
                   error_messages |-> st.error_messages], 0)
    ELSE IF st.product_info = None \/ st.influencer_profiles = None
    THEN Raised(0)
    ELSE LET r == EmailLoop(st.selected_influencers[1], 1, st.influencer_profiles[1], oc,
                      [emails |-> <<>>, errors |-> st.error_messages, calls |-> 0])
         IN  Returned([generated_emails |-> Some(r.emails),
                       error_messages |-> st.error_messages], r.calls)

generate_emails_node(st, oc) ==
    IF ~Truthy(st.selected_influencers)
    THEN Returned([generated_emails |-> Some(<<>>),
                   error_messages |-> st.error_messages], 0)
    ELSE IF st.product_info = None \/ st.influencer_profiles = None
    THEN Raised(0)   \* None.copy(), line 329; None.get(...), line 338
    ELSE LET r == EmailLoop(st.selected_influencers[1], 1, st.influencer_profiles[1], oc,
                      [emails |-> <<>>, errors |-> st.error_messages, calls |-> 0])
         IN  Returned([generated_emails |-> Some(r.emails),
                       error_messages |-> r.errors], r.calls)

----------------------------------------------------------------------------
(* Edges of workflow_builder, graph_nodes.py:379-437 *)

\* mutant: the edge always leads to generate_emails_node
should_generate_emails_Always(st) == "generate_emails_node"

should_generate_emails(st) ==
    IF Truthy(st.selected_influencers) /\ Len(st.selected_influencers[1]) > 0
    THEN "generate_emails_node"
    ELSE "END"

\* the node that follows `node` once its update is merged into st
\* mutant: the matcher's edge leads straight to generate_emails_node
NextNode_SkipFilter(node, st) ==
    CASE node = "analyze_product_node" -> "analyze_influencers_platforms_node"
      [] node = "analyze_influencers_platforms_node" -> "generate_influencer_profiles_node"
      [] node = "generate_influencer_profiles_node" -> "match_influencers_node"
      [] node = "match_influencers_node" -> "generate_emails_node"
      [] node = "filter_matches_node" -> should_generate_emails(st)
      [] node = "generate_emails_node" -> "END"

NextNode(node, st) ==
    CASE node = "analyze_product_node" -> "analyze_influencers_platforms_node"
      [] node = "analyze_influencers_platforms_node" -> "generate_influencer_profiles_node"
      [] node = "generate_influencer_profiles_node" -> "match_influencers_node"
      [] node = "match_influencers_node" -> "filter_matches_node"
      [] node = "filter_matches_node" -> should_generate_emails(st)
      [] node = "generate_emails_node" -> "END"

----------------------------------------------------------------------------
(* Inputs of the model *)

Content == <<"content">>

\* entries of influencer_data: influencerId, influencerName and platforms
\* (platform name -> content list).  The nodes read the id and the name with
\* .get, so both are Optional here; a request always carries both
\* (InfluencerInputForWorkflow, main.py:90-93 and 339-345), and nothing
\* keeps two entries from carrying one id
Influencer(id, name, platforms) ==
    [influencerId |-> id, influencerName |-> name, platforms |-> platforms]

Influencers ==
    { Influencer(Some("a"), Some("A"), << <<"youtube", Content>>, <<"tiktok", Content>> >>),
      Influencer(Some("b"), Some("B"), << <<"youtube", Content>>, <<"tiktok", <<>> >> >>),
      Influencer(Some("a"), Some("A2"), << <<"youtube", Content>> >>) }

\* the product_info a caller may hand to product_analysis_app or influencer_app
ProductInfos ==
    {None, Some(<<>>),
     Some(<< <<"product_title", "t">>, <<"mainAudience", "info">> >>)}

\* request_data.product_info.model_dump(), main.py:336 (and 291): the 16
\* fields of ProductInputForAnalysis, main.py:70-87, each of them present
ProductInputFields ==
    <<"product_title", "price", "rating", "review_count", "availability",
      "seller", "seller_url", "seller_address", "product_url", "asin",
      "image_url", "features", "description", "category_source", "brand_name",
      "listing_date">>
RequestProductInfo ==
    [i \in DOMAIN ProductInputFields |-> <<ProductInputFields[i], "value">>]

\* the match_threshold of a MarketingWorkflowRequest, main.py:121:
\* Optional[float] within 0..100, 75.0 if the request names none
Thresholds == {None, DefaultThreshold, Some(1000)}

EarlierError == <<"error recorded before the run">>
InitialErrors == {<<>>, <<EarlierError>>}

\* a match_score string, character by character
Str88 == <<"8", "8", "%">>
Str75 == <<"7", "5", "%">>
StrAbc == <<"a", "b", "c">>

\* what the completion service may return to the matcher
LlmName(id) == CASE id = "a" -> "A" [] OTHER -> "X"
MatchItem(id, score) ==
    [influencerId |-> Some(id), influencerName |-> Some(LlmName(id)),
     match_score |-> score, match_rationale |-> Some("rationale")]
LlmIds == {"a", "x"}
MatchItems ==
    {MatchItem(id, Some(sc)) : id \in LlmIds, sc \in {Str88, StrAbc}}
        \cup {MatchItem("a", None)}
MatcherResponses ==
    {[kind |-> k, items |-> <<>>] : k \in {"exception", "notlist", "list"}}
        \cup {[kind |-> "list", items |-> items] :
                 items \in SeqsUpTo(MatchItems, MaxResults) \ {<<>>}}

----------------------------------------------------------------------------
(* The executor: one node at a time, its update merged, then the edge *)

Nodes == {"analyze_product_node", "analyze_influencers_platforms_node",
          "generate_influencer_profiles_node", "match_influencers_node",
          "filter_matches_node", "generate_emails_node"}

SetState(st) ==
    /\ product_info' = st.product_info
    /\ influencer_data' = st.influencer_data
    /\ product_tags' = st.product_tags
    /\ platform_analysis' = st.platform_analysis
    /\ influencer_profiles' = st.influencer_profiles
    /\ match_results' = st.match_results
    /\ selected_influencers' = st.selected_influencers
    /\ generated_emails' = st.generated_emails
    /\ error_messages' = st.error_messages
    /\ match_threshold' = st.match_threshold

\* the node at the cursor has run with `result`: an exception ends the run
\* and no update is merged, a normal return is merged and the edge followed
Advance(node, result) ==
    /\ trace' = Append(trace, node)
    /\ llm_calls' = llm_calls + result.calls
    /\ IF result.raised
       THEN /\ pc' = "raised"
            /\ SetState(StateRec)
       ELSE /\ SetState(Merge(StateRec, result.update))
            /\ pc' = NextNode(node, Merge(StateRec, result.update))
    /\ UNCHANGED <<entry, intent_vars, panel_vars, crawl_vars>>

\* The graph is built on MarketingWorkFlowState (line 411) and the node is
\* annotated with ProductAnalysisState (line 39): the object the node receives
\* is the graph's state, or a ProductAnalysisState built from the graph's
\* values where the executor honours the annotation.  Both are outcomes.
ProductNodeStateClasses == {MarketingWorkFlowStateFields, ProductAnalysisStateFields}

\* MarketingWorkFlowState(**values), built for every node that takes the
\* graph's state: match_threshold is a float and product_tags an Optional
\* ProductTags (graph_state.py:78 and 88), so None for the one and a value
\* that is no dict for the other are rejected by validation, and so is a
\* value of platform_analysis or influencer_profiles (lines 79-80) that
\* lacks a required field of its class or is no dict
ValidMarketingWorkFlowState(st) ==
    /\ st.match_threshold # None
    /\ st.product_tags # None => IsDict(st.product_tags[1])
    /\ st.platform_analysis # None =>
          \A k \in DOMAIN st.platform_analysis[1] :
             \A j \in DOMAIN st.platform_analysis[1][k][2] :
                IsPlatformAnalysisResult(st.platform_analysis[1][k][2][j][2])
    /\ st.influencer_profiles # None =>
          \A k \in DOMAIN st.influencer_profiles[1] :
             IsInfluencerProfile(st.influencer_profiles[1][k][2])

\* ProductAnalysisState(product_info = ...): the field is a required Dict,
\* None is rejected by validation; error_message is not set and stays None
ValidProductAnalysisState(st_product_info) == st_product_info # None

\* the state object of class `fields` cannot be built for analyze_product_node
ProductNodeRejects(fields) ==
    IF fields = ProductAnalysisStateFields
    THEN ~ValidProductAnalysisState(product_info)
    ELSE ~ValidMarketingWorkFlowState(StateRec)

StepAnalyzeProduct ==
    /\ pc = "analyze_product_node"
    /\ \E fields \in ProductNodeStateClasses, returned \in ProductResponses :
          /\ ~ProductNodeRejects(fields)
          /\ Advance("analyze_product_node",
                     analyze_product_node(fields, product_info, None, returned))
    /\ UNCHANGED <<matcher_returned, prompt_product_info>>

\* the state object built for the node at the cursor does not validate: the
\* run raises and the node's body does not start
RejectState ==
    /\ pc \in Nodes
    /\ IF pc = "analyze_product_node"
       THEN \E fields \in ProductNodeStateClasses : ProductNodeRejects(fields)
       ELSE ~ValidMarketingWorkFlowState(StateRec)
    /\ pc' = "raised"
    /\ SetState(StateRec)
    /\ UNCHANGED <<entry, trace, llm_calls, matcher_returned, prompt_product_info,
                   intent_vars, panel_vars, crawl_vars>>

StepAnalyzePlatforms ==
    /\ pc = "analyze_influencers_platforms_node"
    /\ ValidMarketingWorkFlowState(StateRec)
    /\ \E oc \in [PlatformPairs(influencer_data) -> CallOutcomes] :
          Advance("analyze_influencers_platforms_node",
                  analyze_influencers_platforms_node(StateRec, oc))
    /\ UNCHANGED <<matcher_returned, prompt_product_info>>

StepGenerateProfiles ==
    /\ pc = "generate_influencer_profiles_node"
    /\ ValidMarketingWorkFlowState(StateRec)
    /\ \E oc \in [DOMAIN Get(platform_analysis, <<>>) -> CallOutcomes] :
          Advance("generate_influencer_profiles_node",
                  generate_influencer_profiles_node(StateRec, oc))
    /\ UNCHANGED <<matcher_returned, prompt_product_info>>

StepMatch ==
    /\ pc = "match_influencers_node"
    /\ ValidMarketingWorkFlowState(StateRec)
    /\ \E response \in MatcherResponses :
          LET result == match_influencers_node(StateRec, response) IN
          /\ Advance("match_influencers_node", result)
          /\ IF result.calls > 0
             THEN /\ matcher_returned' = Some(response)
                  /\ prompt_product_info' = Some(MatcherProductInput(StateRec))
             ELSE UNCHANGED <<matcher_returned, prompt_product_info>>

StepFilter ==
    /\ pc = "filter_matches_node"
    /\ ValidMarketingWorkFlowState(StateRec)
    /\ Advance("filter_matches_node", filter_matches_node(StateRec))
    /\ UNCHANGED <<matcher_returned, prompt_product_info>>

StepGenerateEmails ==
    /\ pc = "generate_emails_node"
    /\ ValidMarketingWorkFlowState(StateRec)
    /\ \E oc \in [DOMAIN Get(selected_influencers, <<>>) -> EmailOutcomes] :
          LET result == generate_emails_node(StateRec, oc) IN
          /\ Advance("generate_emails_node", result)
          /\ IF result.calls > 0
             THEN prompt_product_info' = Some(EmailProductInput(StateRec))
             ELSE UNCHANGED prompt_product_info
    /\ UNCHANGED matcher_returned

\* multi-agnet.py:154-160, the dict as the module builds it.  chatList is
\* None while it is the placeholder str and Some(lines) once it is a list;
\* player is None while the dict has no key "player" (line 158 writes the
\* key "plyer")
InitialData == [chatList |-> None, player |-> None, isEnd |-> FALSE]

\* the ids in use for crawl jobs (uuid4 strings in the source)
MaxJobs == 2
JobIds == 1..MaxJobs

\* no run_crawl_task call exists for the job
TaskIdle == [pc |-> "idle", product_data |-> None]

\* no crawl job has been submitted and no status query made
CrawlIdle ==
    /\ jobs = [job_id \in JobIds |-> None]
    /\ task = [job_id \in JobIds |-> TaskIdle]
    /\ query = None
    /\ crawl_response = None
    /\ queries = 0

\* the module-level dict as built and no graph.invoke call made
PanelIdle ==
    /\ data = InitialData
    /\ messages = <<>>
    /\ runs = 0

\* no intent run is under way: the fields of its state hold nothing
IntentIdle ==
    /\ email_subject = None
    /\ email_body = ""
    /\ analysis_result = None
    /\ error_message = None

\* workflow_app.invoke(initial_state_dict), main.py:336-347: the state holds
\* the caller's four input fields and nothing else.  /analyze-product-only
\* (main.py:291) passes no influencer and leaves the threshold to its default.
Entries == {"analyze_product_node"}

Init ==
    /\ entry \in Entries
    /\ pc = entry
    /\ product_info = Some(RequestProductInfo)
    /\ influencer_data \in SeqsUpTo(Influencers, MaxInfluencers)
    /\ product_tags = None
    /\ platform_analysis = None
    /\ influencer_profiles = None
    /\ match_results = None
    /\ selected_influencers = None
    /\ generated_emails = None
    /\ error_messages = <<>>
    /\ match_threshold \in Thresholds
    /\ trace = <<>>
    /\ llm_calls = 0
    /\ matcher_returned = None
    /\ prompt_product_info = None
    /\ IntentIdle
    /\ PanelIdle
    /\ CrawlIdle

Next ==
    \/ StepAnalyzeProduct
    \/ RejectState
    \/ StepAnalyzePlatforms
    \/ StepGenerateProfiles
    \/ StepMatch
    \/ StepFilter
    \/ StepGenerateEmails

Spec == Init /\ [][Next]_vars

----------------------------------------------------------------------------
(* filter_matches_node on its own: the node applied to a state that holds  *)
(* any list of match results, over score strings of every shape            *)

Str75Bare == <<"7", "5">>
Str75Dot == <<"7", "5", ".", "0", "%">>
Str60Spaced == <<" ", "6", "0", " ", "%">>
StrInner == <<"7", "%", "5">>
StrNeg == <<"-", "5", "%">>
StrEmpty == <<>>
StrTwoDots == <<"7", ".", "5", ".", "%">>

FilterScores ==
    {Str88, Str75, StrAbc, Str75Bare, Str75Dot, Str60Spaced, StrInner, StrNeg,
     StrEmpty, StrTwoDots}
FilterResults ==
    {MatchResult(MatchItem(id, Some(sc))) : id \in {"a", "b"}, sc \in FilterScores}
FilterThresholds == {Some(0), Some(750), Some(755)}

InitFilter ==
    /\ entry = "filter_matches_node"
    /\ pc = entry
    /\ product_info = Some(<<>>)
    /\ influencer_data = <<>>
    /\ product_tags = None
    /\ platform_analysis = None
    /\ influencer_profiles = None
    /\ match_results \in {None} \cup
           {Some(l) : l \in SeqsUpTo(FilterResults, MaxFilterResults)}
    /\ selected_influencers = None
    /\ generated_emails = None
    /\ error_messages \in InitialErrors
    /\ match_threshold \in FilterThresholds
    /\ trace = <<>>
    /\ llm_calls = 0
    /\ matcher_returned = None
    /\ prompt_product_info = None
    /\ IntentIdle
    /\ PanelIdle
    /\ CrawlIdle

NextFilter == StepFilter

SpecFilter == InitFilter /\ [][NextFilter]_vars

----------------------------------------------------------------------------
(* analyze_product_node (graph_nodes.py:39-111) and match_influencers_node  *)
(* (206-282) as functions of the state they are called on: the state is    *)
(* any the state class accepts, the node at the cursor is applied once and *)
(* its update merged                                                        *)

NodeCallProfiles ==
    {None, Some(<<>>), Some(<< <<"a", InfluencerProfile("a", "A")>> >>)}

InitNodeCall ==
    /\ entry \in {"analyze_product_node", "match_influencers_node"}
    /\ pc = entry
    /\ product_info \in ProductInfos \cup {Some(RequestProductInfo)}
    /\ influencer_data \in SeqsUpTo(Influencers, MaxInfluencers)
    /\ product_tags \in {None, Some(ProductTagsObj)}
    /\ platform_analysis = None
    /\ influencer_profiles \in NodeCallProfiles
    /\ match_results = None
    /\ selected_influencers = None
    /\ generated_emails = None
    /\ error_messages \in InitialErrors
    /\ match_threshold = DefaultThreshold
    /\ trace = <<>>
    /\ llm_calls = 0
    /\ matcher_returned = None
    /\ prompt_product_info = None
    /\ IntentIdle
    /\ PanelIdle
    /\ CrawlIdle

\* the call of the node, or the rejection of a state the node at the cursor
\* cannot be handed; the run is not followed beyond the node
NextNodeCall ==
    \/ StepAnalyzeProduct
    \/ StepMatch
    \/ RejectState

SpecNodeCall == InitNodeCall /\ [][NextNodeCall]_vars

----------------------------------------------------------------------------
(* workflow_app.invoke (graph_nodes.py:437) as a function of the dict it is *)
(* handed: product_info is any value MarketingWorkFlowState.product_info    *)
(* takes (graph_state.py:77), absent and empty included; the other keys are *)
(* as run_marketing_workflow sets them                                      *)

WorkflowProductInfos == {None, Some(<<>>), Some(RequestProductInfo)}

InitWorkflowCall ==
    /\ entry \in Entries
    /\ pc = entry
    /\ product_info \in WorkflowProductInfos
    /\ influencer_data \in SeqsUpTo(Influencers, MaxInfluencers)
    /\ product_tags = None
    /\ platform_analysis = None
    /\ influencer_profiles = None
    /\ match_results = None
    /\ selected_influencers = None
    /\ generated_emails = None
    /\ error_messages = <<>>
    /\ match_threshold = DefaultThreshold
    /\ trace = <<>>
    /\ llm_calls = 0
    /\ matcher_returned = None
    /\ prompt_product_info = None
    /\ IntentIdle
    /\ PanelIdle
    /\ CrawlIdle

SpecWorkflowCall == InitWorkflowCall /\ [][Next]_vars

----------------------------------------------------------------------------
(* influencer_app, graph_nodes.py:401-407: the graph of the two influencer  *)
(* nodes as influcencer_analysis_builder declares it                        *)

InfluencerNodes ==
    {"analyze_influencers_platforms_node", "generate_influencer_profiles_node"}

\* the add_edge calls of lines 404 and 406
InfluencerEdges ==
    {<<"START", "analyze_influencers_platforms_node">>,
     <<"generate_influencer_profiles_node", "END">>}

\* the target of the node's edge; a node without an outgoing edge schedules
\* nothing and the run is over
InfluencerNextNode(node) ==
    IF \E e \in InfluencerEdges : e[1] = node
    THEN (CHOOSE e \in InfluencerEdges : e[1] = node)[2]
    ELSE "END"

\* the completion outcomes the node at the cursor consumes
InfluencerOutcomes(node) ==
    IF node = "analyze_influencers_platforms_node"
    THEN [PlatformPairs(influencer_data) -> CallOutcomes]
    ELSE [DOMAIN Get(platform_analysis, <<>>) -> CallOutcomes]

InfluencerNodeResult(node, oc) ==
    IF node = "analyze_influencers_platforms_node"
    THEN analyze_influencers_platforms_node(StateRec, oc)
    ELSE generate_influencer_profiles_node(StateRec, oc)

StepInfluencerApp ==
    /\ pc \in InfluencerNodes
    /\ \E oc \in InfluencerOutcomes(pc) :
          LET result == InfluencerNodeResult(pc, oc) IN
          /\ trace' = Append(trace, pc)
          /\ llm_calls' = llm_calls + result.calls
          /\ IF result.raised
             THEN /\ pc' = "raised"
                  /\ SetState(StateRec)
             ELSE /\ SetState(Merge(StateRec, result.update))
                  /\ pc' = InfluencerNextNode(pc)
    /\ UNCHANGED <<entry, matcher_returned, prompt_product_info, intent_vars,
                   panel_vars, crawl_vars>>

\* influencer_app.invoke(input): the cursor at the target of the START edge
InitInfluencer ==
    /\ entry = "influencer_app"
    /\ pc = (CHOOSE e \in InfluencerEdges : e[1] = "START")[2]
    /\ product_info \in ProductInfos
    /\ influencer_data \in SeqsUpTo(Influencers, MaxInfluencers)
    /\ product_tags = None
    /\ platform_analysis = None
    /\ influencer_profiles = None
    /\ match_results = None
    /\ selected_influencers = None
    /\ generated_emails = None
    /\ error_messages \in InitialErrors
    /\ match_threshold = DefaultThreshold
    /\ trace = <<>>
    /\ llm_calls = 0
    /\ matcher_returned = None
    /\ prompt_product_info = None
    /\ IntentIdle
    /\ PanelIdle
    /\ CrawlIdle

NextInfluencer == StepInfluencerApp

SpecInfluencer == InitInfluencer /\ [][NextInfluencer]_vars

----------------------------------------------------------------------------
(* intent_app, graph_nodes.py:443-492: the one-node graph that classifies   *)
(* a reply email                                                            *)

\* the fields of EmailIntentOutput, main.py:151-159: what the prompt is to
\* return
ExpectedKeys ==
    <<"cooperation_intent", "key_points", "suggested_next_step", "sentiment",
      "is_urgent", "notification_summary">>

\* the keys a returned dict may hold: JsonOutputParser() checks none
ReturnedKeys == ExpectedKeys \o <<"extra_field">>

\* a dict with the given keys, in the order of ReturnedKeys
IntentDict(keys) ==
    LET has(k) == k \in keys
        sel == SelectSeq(ReturnedKeys, has)
    IN  [i \in DOMAIN sel |-> <<sel[i], "v">>]

\* what intent_chain.invoke gives: an exception, a dict, or another JSON
\* value (truthy: a list, a number; falsy: null, an empty list)
IntentResponses ==
    {[kind |-> "exception", value |-> <<>>, truthy |-> FALSE]}
        \cup {[kind |-> "dict", value |-> IntentDict(keys), truthy |-> keys # {}] :
                 keys \in SUBSET {ReturnedKeys[i] : i \in DOMAIN ReturnedKeys}}
        \cup {[kind |-> "other", value |-> <<>>, truthy |-> t] : t \in BOOLEAN}

IntentStateRec ==
    [email_subject |-> email_subject, email_body |-> email_body,
     analysis_result |-> analysis_result, error_message |-> error_message]

\* mutant: the empty body is not checked, the completion call is made
intent_analysis_node_NoBodyCheck(st, returned) ==
    IF returned.kind = "exception"
    THEN Raised(1)
    ELSE IF returned.kind = "dict" /\ DictHas(returned.value, "cooperation_intent")
    THEN Returned([analysis_result |-> Some(returned.value),
                   error_message |-> None], 1)
    ELSE Returned([analysis_result |-> None,
                   error_message |-> Some(<<"Intent analysis returned invalid or incomplete format.">>)], 1)

\* intent_analysis_node, lines 443-484
intent_analysis_node(st, returned) ==
    IF st.email_body = ""
    THEN Returned([analysis_result |-> None,
                   error_message |-> Some(<<"Email body is empty.">>)], 0)
    ELSE IF returned.kind = "exception"
    THEN Raised(1)   \* line 483 names traceback, which the module never
                     \* imports: NameError leaves the except block
    ELSE IF returned.truthy /\ returned.kind = "dict"
            /\ DictHas(returned.value, "cooperation_intent")
    THEN Returned([analysis_result |-> Some(returned.value),
                   error_message |-> None], 1)
    ELSE Returned([analysis_result |-> None,
                   error_message |->
                       IF returned.truthy
                       THEN Some(<<"Intent analysis returned invalid or incomplete format.", " Got: ">>)
                       ELSE Some(<<"Intent analysis returned invalid or incomplete format.">>)], 1)

\* the fields of the marketing state and what is recorded of its calls
marketing_vars ==
    <<product_info, influencer_data, product_tags, platform_analysis,
      influencer_profiles, match_results, selected_influencers,
      generated_emails, error_messages, match_threshold, matcher_returned,
      prompt_product_info>>

\* the node runs, its update is merged, the edge to END is followed
StepIntent ==
    /\ pc = "analyze_reply_intent_node"
    /\ \E returned \in IntentResponses :
          LET result == intent_analysis_node(IntentStateRec, returned) IN
          /\ trace' = Append(trace, pc)
          /\ llm_calls' = llm_calls + result.calls
          /\ IF result.raised
             THEN /\ pc' = "raised"
                  /\ UNCHANGED <<analysis_result, error_message>>
             ELSE /\ pc' = "END"
                  /\ analysis_result' = result.update.analysis_result
                  /\ error_message' = result.update.error_message
    /\ UNCHANGED <<entry, email_subject, email_body, marketing_vars, panel_vars,
                   crawl_vars>>

EmailSubjects == {None, Some("Re: offer")}
EmailBodies == {"", "body"}

\* the requests the server takes one after the other
MaxRuns == 2

\* analyze_email_intent, main.py:368-382, called for the next request once
\* a run is over: intent_app.invoke builds the state of the new run from
\* initial_state_dict, which holds the request's two fields and
\* error_message = None
analyze_email_intent ==
    /\ pc \in {"END", "raised"}
    /\ runs < MaxRuns
    /\ runs' = runs + 1
    /\ pc' = "analyze_reply_intent_node"
    /\ email_subject' \in EmailSubjects
    /\ email_body' \in EmailBodies
    /\ analysis_result' = None
    /\ error_message' = None
    /\ trace' = <<>>
    /\ llm_calls' = 0
    /\ UNCHANGED <<entry, data, messages, marketing_vars, crawl_vars>>

\* the first call of analyze_email_intent: intent_app.invoke(initial_state_dict)
InitIntent ==
    /\ entry = "intent_app"
    /\ pc = "analyze_reply_intent_node"
    /\ email_subject \in EmailSubjects
    /\ email_body \in EmailBodies
    /\ analysis_result = None
    /\ error_message = None
    /\ data = InitialData
    /\ messages = <<>>
    /\ runs = 1
    /\ product_info = None
    /\ influencer_data = <<>>
    /\ product_tags = None
    /\ platform_analysis = None
    /\ influencer_profiles = None
    /\ match_results = None
    /\ selected_influencers = None
    /\ generated_emails = None
    /\ error_messages = <<>>
    /\ match_threshold = DefaultThreshold
    /\ trace = <<>>
    /\ llm_calls = 0
    /\ matcher_returned = None
    /\ prompt_product_info = None
    /\ CrawlIdle

NextIntent ==
    \/ StepIntent
    \/ analyze_email_intent

SpecIntent == InitIntent /\ [][NextIntent]_vars

----------------------------------------------------------------------------
(* The panel discussion, multi-agnet.py:152-222: a MessageGraph whose host  *)
(* node and four player nodes share the module-level dict `data`            *)

\* line 48, the four personas (names transliterated)
role_List == <<"ChengLong", "LiuYifei", "ShenTeng", "XueZhiqian">>

\* the keys of the conditional edge and their nodes, lines 199-209
PlayRoutes == <<"play1", "play2", "play3", "play4">>
PlayNodes == <<"playNode1", "playNode2", "playNode3", "playNode4">>
PlayNodeSet == {PlayNodes[i] : i \in DOMAIN PlayNodes}

\* line 167: len(state) > 5
TurnCeiling == 5

\* line 183, the value data["player"] takes once the flag is set
EndedSpeaker == "no next speaker, the show is over"

\* a message a chain produced: the node that spoke and the text, which is
\* identified by the number of the completion call that produced it
Message(node, n) == [node |-> node, content |-> n]

\* a transcript line: "嘉宾(" + player + "):" + content, line 180, or
\* "主持人（喵喵）" + content, lines 192-194
GuestLine(player, content) == [who |-> "guest", name |-> player, content |-> content]
HostLine(content) == [who |-> "host", name |-> "MiaoMiao", content |-> content]

\* mutant: the next speaker is sampled before the utterance is filed, so the
\* line carries the new speaker's name
msgParser_SampleFirst(d, state, sampled) ==
    IF d.chatList # None /\ (state = <<>> \/ d.player = None)
    THEN [raised |-> TRUE, data |-> d]
    ELSE LET d1 == IF d.isEnd THEN [d EXCEPT !.player = Some(EndedSpeaker)]
                   ELSE [d EXCEPT !.player = Some(sampled)]
         IN  [raised |-> FALSE,
              data |-> IF d1.chatList # None
                       THEN [d1 EXCEPT !.chatList = Some(Append(@[1],
                                GuestLine(d1.player[1], state[Len(state)].content)))]
                       ELSE d1]

\* msgParser, lines 178-188.  sampled: the outcome of random.sample.
\* With chatList a list, state[-1] on an empty state is an IndexError and
\* data["player"] on a dict without that key a KeyError.
msgParser(d, state, sampled) ==
    IF d.chatList # None /\ (state = <<>> \/ d.player = None)
    THEN [raised |-> TRUE, data |-> d]
    ELSE LET d1 == IF d.chatList # None
                   THEN [d EXCEPT !.chatList = Some(Append(@[1],
                            GuestLine(d.player[1], state[Len(state)].content)))]
                   ELSE d
         IN  [raised |-> FALSE,
              data |-> IF d1.isEnd THEN [d1 EXCEPT !.player = Some(EndedSpeaker)]
                       ELSE [d1 EXCEPT !.player = Some(sampled)]]

\* playMsgParser, lines 190-196
playMsgParser(d, state) ==
    IF d.chatList = None
    THEN [d EXCEPT !.chatList = Some(<<HostLine(state[1].content)>>)]
    ELSE [d EXCEPT !.chatList = Some(Append(@[1], HostLine(state[Len(state)].content)))]

\* mutant: the flag is set before it is tested
choose_FlagFirst(d, state) ==
    LET d1 == IF Len(state) > TurnCeiling THEN [d EXCEPT !.isEnd = TRUE] ELSE d
    IN  IF d1.isEnd
        THEN [route |-> "end", data |-> d1]
        ELSE [route |-> IF \E index \in DOMAIN role_List : d1.player = Some(role_List[index])
                        THEN PlayRoutes[CHOOSE index \in DOMAIN role_List :
                                            d1.player = Some(role_List[index])]
                        ELSE "end",
              data |-> d1]

\* choose, lines 162-176: the route and the dict as the call leaves it
choose(d, state) ==
    IF d.isEnd
    THEN [route |-> "end", data |-> d]
    ELSE LET d1 == IF Len(state) > TurnCeiling THEN [d EXCEPT !.isEnd = TRUE] ELSE d
         IN  [route |-> IF \E index \in DOMAIN role_List : d1.player = Some(role_List[index])
                        THEN PlayRoutes[CHOOSE index \in DOMAIN role_List :
                                            d1.player = Some(role_List[index])]
                        ELSE "end",
              data |-> d1]

\* the mapping of add_conditional_edges, lines 204-209
RouteTarget(route) ==
    IF route = "end" THEN "END"
    ELSE PlayNodes[CHOOSE i \in DOMAIN PlayRoutes : PlayRoutes[i] = route]

\* a chain (prompt | llm | StrOutputParser) returns a text or raises
ChainOutcomes == {"ok", "exception"}

\* hostNode = msgParser | hostChain, then the conditional edge, which reads
\* the state with the host's message in it
StepHost ==
    /\ pc = "hostNode"
    /\ \E sampled \in {role_List[i] : i \in DOMAIN role_List}, outcome \in ChainOutcomes :
          LET parsed == msgParser(data, messages, sampled)
              state1 == Append(messages, Message("hostNode", llm_calls + 1))
              chosen == choose(parsed.data, state1)
          IN  IF parsed.raised
              THEN /\ pc' = "raised"
                   /\ data' = parsed.data
                   /\ UNCHANGED <<messages, llm_calls>>
              ELSE IF outcome = "exception"
              THEN /\ pc' = "raised"
                   /\ data' = parsed.data
                   /\ llm_calls' = llm_calls + 1
                   /\ UNCHANGED messages
              ELSE /\ pc' = RouteTarget(chosen.route)
                   /\ data' = chosen.data
                   /\ llm_calls' = llm_calls + 1
                   /\ messages' = state1
    /\ trace' = Append(trace, "hostNode")
    /\ UNCHANGED <<entry, runs, marketing_vars, intent_vars, crawl_vars>>

\* playNode_i = playMsgParser | playerChains[i-1], then the edge to hostNode
StepPlay ==
    /\ pc \in PlayNodeSet
    /\ \E outcome \in ChainOutcomes :
          /\ data' = playMsgParser(data, messages)
          /\ llm_calls' = llm_calls + 1
          /\ IF outcome = "exception"
             THEN /\ pc' = "raised"
                  /\ UNCHANGED messages
             ELSE /\ pc' = "hostNode"
                  /\ messages' = Append(messages, Message(pc, llm_calls + 1))
    /\ trace' = Append(trace, pc)
    /\ UNCHANGED <<entry, runs, marketing_vars, intent_vars, crawl_vars>>

\* lines 64-76, the script before the graph exists: roleDesChain.batch makes
\* one completion call per persona and parse_and_check_json_markdown reads
\* each description; a call or a parse that raises ends the script
DescribeRoles ==
    /\ pc = "roleDesChain"
    /\ \E outcome \in {"ok", "exception", "unparsable"} :
          pc' = IF outcome = "ok" THEN "hostChain" ELSE "raised"
    /\ llm_calls' = llm_calls + Len(role_List)
    /\ UNCHANGED <<data, messages, runs, trace, entry, marketing_vars,
                   intent_vars, crawl_vars>>

\* line 148, print(hostChain.invoke(...)): one more completion call; then
\* the dict and the graph are built and line 222 calls graph.invoke([]),
\* the only run of the script
IntroduceShow ==
    /\ pc = "hostChain"
    /\ llm_calls' = llm_calls + 1
    /\ \E outcome \in ChainOutcomes :
          IF outcome = "ok"
          THEN /\ pc' = "hostNode"
               /\ runs' = runs + 1
          ELSE /\ pc' = "raised"
               /\ UNCHANGED runs
    /\ UNCHANGED <<data, messages, trace, entry, marketing_vars,
                   intent_vars, crawl_vars>>

\* the script starts: no completion call made, no graph built
InitPanel ==
    /\ entry = "graph"
    /\ pc = "roleDesChain"
    /\ PanelIdle
    /\ trace = <<>>
    /\ llm_calls = 0
    /\ IntentIdle
    /\ CrawlIdle
    /\ product_info = None
    /\ influencer_data = <<>>
    /\ product_tags = None
    /\ platform_analysis = None
    /\ influencer_profiles = None
    /\ match_results = None
    /\ selected_influencers = None
    /\ generated_emails = None
    /\ error_messages = <<>>
    /\ match_threshold = DefaultThreshold
    /\ matcher_returned = None
    /\ prompt_product_info = None

NextPanel ==
    \/ DescribeRoles
    \/ IntroduceShow
    \/ StepHost
    \/ StepPlay

SpecPanel == InitPanel /\ [][NextPanel]_vars

----------------------------------------------------------------------------
(* product_analysis_app, graph_nodes.py:391-396: analyze_product_node alone *)
(* on a ProductAnalysisState (product_info, product_tags, error_message)    *)

\* ProductAnalysisState.error_message as the caller may set it
ErrorMessageInputs == {None, Some(""), Some("earlier error")}

\* the node runs, unless the input is rejected when its state is built, and
\* the keys of its update that are fields of ProductAnalysisState are written: product_tags is one, error_messages
\* (the key the node returns its errors under) is none
StepProductApp ==
    /\ pc = "analyze_product_node"
    /\ \E returned \in ProductResponsesAll :
          LET result == IF ~ValidProductAnalysisState(product_info)
                        THEN Raised(0)
                        ELSE analyze_product_node(ProductAnalysisStateFields,
                                 product_info, error_message, returned)
          IN  /\ trace' = IF ValidProductAnalysisState(product_info)
                          THEN Append(trace, pc)
                          ELSE trace   \* rejected before the body starts
              /\ llm_calls' = llm_calls + result.calls
              /\ IF result.raised
                 THEN /\ pc' = "raised"
                      /\ UNCHANGED product_tags
                 ELSE /\ pc' = "END"
                      /\ product_tags' =
                             IF "product_tags" \in DOMAIN result.update
                                    \cap ProductAnalysisStateFields
                             THEN result.update.product_tags
                             ELSE product_tags
    /\ UNCHANGED <<entry, product_info, influencer_data, platform_analysis,
                   influencer_profiles, match_results, selected_influencers,
                   generated_emails, error_messages, match_threshold,
                   matcher_returned, prompt_product_info, email_subject,
                   email_body, analysis_result, error_message, panel_vars,
                   crawl_vars>>

\* product_analysis_app.invoke(input)
InitProduct ==
    /\ entry = "product_analysis_app"
    /\ pc = "analyze_product_node"
    /\ product_info \in ProductInfos
    /\ product_tags = None
    /\ error_message \in ErrorMessageInputs
    /\ email_subject = None
    /\ email_body = ""
    /\ analysis_result = None
    /\ influencer_data = <<>>
    /\ platform_analysis = None
    /\ influencer_profiles = None
    /\ match_results = None
    /\ selected_influencers = None
    /\ generated_emails = None
    /\ error_messages = <<>>
    /\ match_threshold = DefaultThreshold
    /\ trace = <<>>
    /\ llm_calls = 0
    /\ matcher_returned = None
    /\ prompt_product_info = None
    /\ PanelIdle
    /\ CrawlIdle

NextProduct == StepProductApp

SpecProduct == InitProduct /\ [][NextProduct]_vars

----------------------------------------------------------------------------
(* Crawl jobs: main.py:220-272 and product_crawl.py:548-583.  The task is  *)
(* a plain function that the server runs on a worker thread, the endpoints *)
(* run on the event loop: a step of one may fall between any two           *)
(* assignments of the other.  The time stamps of a job are left out.       *)

MaxQueries == 2

\* a str value of a result dict
Str(s) == [type |-> "str", value |-> s]

\* what crawl_one_product returns (product_crawl.py:510-531): the details
\* of _extract_product_details, which start with the platform and the url
\* (line 207) and hold str values only, the features among them ("N/A" or
\* the joined bullets, lines 355-372); or a dict with the key "error", when
\* no browser could be started, no details came back or a call raised: the
\* text is then str(e) (line 529), the empty text for an exception raised
\* without a message
CrawlerReturns ==
    { << <<"platform", Str("Amazon")>>, <<"product_url", Str("url")>>,
         <<"product_title", Str("t")>>, <<"features", Str("N/A")>> >>,
      << <<"platform", Str("Amazon")>>, <<"product_url", Str("url")>>,
         <<"product_title", Str("t")>>, <<"features", Str("f1 | f2")>> >>,
      << <<"error", Str("Browser could not be initialized.")>> >>,
      << <<"error", Str("Failed to extract details")>> >>,
      << <<"error", Str("")>> >> }

\* product_data.get("error") is truthy
HasError(d) == DictHas(d, "error") /\ DictGet(d, "error").value # ""

\* ProductDataResponse(**d), main.py:39-59: every field is Optional[str],
\* a value that is no str is a validation error
ProductDataResponseParses(d) == \A i \in DOMAIN d : d[i][2].type = "str"
ProductDataResponse(d) == [class |-> "ProductDataResponse", fields |-> d]

\* main.py:225-233
SubmittedJob ==
    [status |-> "submitted", result |-> None,
     message |-> <<"Task submitted for crawling.">>]

\* product_crawl.py:567, 569, 578
error_message_of(product_data) ==
    IF Truthy(product_data) /\ DictHas(product_data[1], "error")
    THEN DictGet(product_data[1], "error").value
    ELSE "Unknown error: No data returned from crawler."
ErrorResult(text) ==
    << <<"error", Str(text)>>, <<"product_url", Str("url")>>,
       <<"platform", Str("Amazon")>> >>

\* jobs[job_id][field] = value
SetJob(job_id, field, value) ==
    jobs' = [jobs EXCEPT ![job_id] = Some([@[1] EXCEPT ![field] = value])]
TaskTo(job_id, label) == task' = [task EXCEPT ![job_id].pc = label]

not_crawl_vars ==
    <<pc, entry, trace, llm_calls, marketing_vars, intent_vars, panel_vars>>

\* submit_crawl_product_task, main.py:220-239: a fresh id, the job record,
\* and the task handed to background_tasks
submit_crawl_product_task ==
    /\ \E job_id \in JobIds :
          /\ jobs[job_id] = None
          /\ \A earlier \in JobIds : earlier < job_id => jobs[earlier] # None
          /\ jobs' = [jobs EXCEPT ![job_id] = Some(SubmittedJob)]
          /\ TaskTo(job_id, "queued")
    /\ UNCHANGED <<query, crawl_response, queries, not_crawl_vars>>

\* run_crawl_task, line 552
TaskSetRunning ==
    /\ \E job_id \in JobIds :
          /\ task[job_id].pc = "queued"
          /\ SetJob(job_id, "status", "running")
          /\ TaskTo(job_id, "crawl")
    /\ UNCHANGED <<query, crawl_response, queries, not_crawl_vars>>

\* lines 559-562: the crawler is built and called; the call returns
\* product_data, or building it raises
TaskCrawl ==
    /\ \E job_id \in JobIds :
          /\ task[job_id].pc = "crawl"
          /\ \/ \E product_data \in CrawlerReturns :
                   task' = [task EXCEPT ![job_id] =
                               [pc |-> IF ~HasError(product_data)
                                       THEN "completed_status" ELSE "failed_status",
                                product_data |-> Some(product_data)]]
             \/ TaskTo(job_id, "except_status")
    /\ UNCHANGED <<jobs, query, crawl_response, queries, not_crawl_vars>>

\* line 563
TaskCompletedStatus ==
    /\ \E job_id \in JobIds :
          /\ task[job_id].pc = "completed_status"
          /\ SetJob(job_id, "status", "completed")
          /\ TaskTo(job_id, "completed_result")
    /\ UNCHANGED <<query, crawl_response, queries, not_crawl_vars>>

\* line 564
TaskCompletedResult ==
    /\ \E job_id \in JobIds :
          /\ task[job_id].pc = "completed_result"
          /\ SetJob(job_id, "result", task[job_id].product_data)
          /\ TaskTo(job_id, "finally")
    /\ UNCHANGED <<query, crawl_response, queries, not_crawl_vars>>

\* line 568
TaskFailedStatus ==
    /\ \E job_id \in JobIds :
          /\ task[job_id].pc = "failed_status"
          /\ SetJob(job_id, "status", "failed")
          /\ TaskTo(job_id, "failed_result")
    /\ UNCHANGED <<query, crawl_response, queries, not_crawl_vars>>

\* line 569
TaskFailedResult ==
    /\ \E job_id \in JobIds :
          /\ task[job_id].pc = "failed_result"
          /\ SetJob(job_id, "result",
                    IF Truthy(task[job_id].product_data)
                    THEN task[job_id].product_data
                    ELSE Some(ErrorResult(error_message_of(task[job_id].product_data))))
          /\ TaskTo(job_id, "failed_message")
    /\ UNCHANGED <<query, crawl_response, queries, not_crawl_vars>>

\* line 570
TaskFailedMessage ==
    /\ \E job_id \in JobIds :
          /\ task[job_id].pc = "failed_message"
          /\ SetJob(job_id, "message", <<error_message_of(task[job_id].product_data)>>)
          /\ TaskTo(job_id, "finally")
    /\ UNCHANGED <<query, crawl_response, queries, not_crawl_vars>>

\* line 576
TaskExceptStatus ==
    /\ \E job_id \in JobIds :
          /\ task[job_id].pc = "except_status"
          /\ SetJob(job_id, "status", "failed")
          /\ TaskTo(job_id, "except_message")
    /\ UNCHANGED <<query, crawl_response, queries, not_crawl_vars>>

\* line 577
TaskExceptMessage ==
    /\ \E job_id \in JobIds :
          /\ task[job_id].pc = "except_message"
          /\ SetJob(job_id, "message", <<"Internal server error">>)
          /\ TaskTo(job_id, "except_result")
    /\ UNCHANGED <<query, crawl_response, queries, not_crawl_vars>>

\* line 578
TaskExceptResult ==
    /\ \E job_id \in JobIds :
          /\ task[job_id].pc = "except_result"
          /\ SetJob(job_id, "result", Some(ErrorResult("Crawler task failed")))
          /\ TaskTo(job_id, "finally")
    /\ UNCHANGED <<query, crawl_response, queries, not_crawl_vars>>

\* lines 579-583
TaskFinally ==
    /\ \E job_id \in JobIds :
          /\ task[job_id].pc = "finally"
          /\ TaskTo(job_id, "done")
    /\ UNCHANGED <<jobs, query, crawl_response, queries, not_crawl_vars>>

\* a response of the status endpoint: 200 with the job's fields, 404 for an
\* unknown id, 500 when the response model rejects the result
StatusResponse(code, job_id, status, message, result) ==
    [code |-> code, jobId |-> job_id, status |-> status, message |-> message,
     result |-> result]

\* get_crawl_product_result, main.py:243-248: the job is looked up and its
\* result read
QueryLookup ==
    /\ query = None
    /\ queries < MaxQueries
    /\ queries' = queries + 1
    /\ \E job_id \in JobIds :
          IF jobs[job_id] = None
          THEN /\ crawl_response' = Some(StatusResponse(404, job_id, "", <<>>, None))
               /\ query' = None
          ELSE /\ query' = Some([at |-> "parse", job_id |-> job_id,
                                 result_data |-> jobs[job_id][1].result,
                                 parsed_result |-> None, status |-> ""])
               /\ UNCHANGED crawl_response
    /\ UNCHANGED <<jobs, task, not_crawl_vars>>

\* lines 249-258: the status is read a first time; the result read before
\* is parsed when the job is completed by then, and a result that does not
\* parse is kept as it is and noted in the job's message
QueryParse ==
    /\ query # None
    /\ query[1].at = "parse"
    /\ LET job_id == query[1].job_id
           result_data == query[1].result_data
           job_info == jobs[job_id][1]
           parsing == job_info.status = "completed" /\ Truthy(result_data)
           parses == ProductDataResponseParses(result_data[1])
       IN  /\ jobs' = IF parsing /\ ~parses
                      THEN [jobs EXCEPT ![job_id] = Some([@[1] EXCEPT !.message =
                               Append(job_info.message, "Result parsing error")])]
                      ELSE jobs
           /\ query' = Some([query[1] EXCEPT
                  !.at = "status",
                  !.parsed_result = IF parsing /\ parses
                                    THEN Some(ProductDataResponse(result_data[1]))
                                    ELSE None])
    /\ UNCHANGED <<task, crawl_response, queries, not_crawl_vars>>

\* line 266: the status is read a second time, for the response
QueryStatus ==
    /\ query # None
    /\ query[1].at = "status"
    /\ query' = Some([query[1] EXCEPT !.at = "message",
                                       !.status = jobs[query[1].job_id][1].status])
    /\ UNCHANGED <<jobs, task, crawl_response, queries, not_crawl_vars>>

\* lines 267-272: the message is read and the response built: the parsed
\* result, or else the result as read at line 248, which the response
\* model then validates as a ProductDataResponse
QueryRespond ==
    /\ query # None
    /\ query[1].at = "message"
    /\ LET job_id == query[1].job_id
           result_data == query[1].result_data
           parsed_result == query[1].parsed_result
           message == jobs[job_id][1].message
       IN  crawl_response' =
              IF parsed_result # None
              THEN Some(StatusResponse(200, job_id, query[1].status, message,
                                       parsed_result))
              ELSE IF result_data = None
              THEN Some(StatusResponse(200, job_id, query[1].status, message, None))
              ELSE IF ProductDataResponseParses(result_data[1])
              THEN Some(StatusResponse(200, job_id, query[1].status, message,
                                       Some(ProductDataResponse(result_data[1]))))
              ELSE Some(StatusResponse(500, job_id, "", <<>>, None))
    /\ query' = None
    /\ UNCHANGED <<jobs, task, queries, not_crawl_vars>>

\* the server has started: no job, no query; the graphs are not run
InitCrawl ==
    /\ CrawlIdle
    /\ entry = "crawl"
    /\ pc = "END"
    /\ PanelIdle
    /\ IntentIdle
    /\ product_info = None
    /\ influencer_data = <<>>
    /\ product_tags = None
    /\ platform_analysis = None
    /\ influencer_profiles = None
    /\ match_results = None
    /\ selected_influencers = None
    /\ generated_emails = None
    /\ error_messages = <<>>
    /\ match_threshold = DefaultThreshold
    /\ trace = <<>>
    /\ llm_calls = 0
    /\ matcher_returned = None
    /\ prompt_product_info = None

NextCrawl ==
    \/ submit_crawl_product_task
    \/ TaskSetRunning
    \/ TaskCrawl
    \/ TaskCompletedStatus
    \/ TaskCompletedResult
    \/ TaskFailedStatus
    \/ TaskFailedResult
    \/ TaskFailedMessage
    \/ TaskExceptStatus
    \/ TaskExceptMessage
    \/ TaskExceptResult
    \/ TaskFinally
    \/ QueryLookup
    \/ QueryParse
    \/ QueryStatus
    \/ QueryRespond

SpecCrawl == InitCrawl /\ [][NextCrawl]_vars

----------------------------------------------------------------------------
(* Claims *)

Ran(node) == \E i \in DOMAIN trace : trace[i] = node
LastRan(node) == trace # <<>> /\ trace[Len(trace)] = node

\* the score of a result read as a number once every "%" is removed
ReadScore(r) == ParseFloat(Replace(r.match_score, "%"))
Malformed(r) == ~ReadScore(r).ok
WellFormed(r) == ReadScore(r).ok
Qualifies(r) ==
    ReadScore(r).ok /\ ExactGE(ReadScore(r), match_threshold[1])

\* C1: after filter_matches_node, selected_influencers is exactly the
\* subsequence of match_results whose score is >= match_threshold (a score
\* equal to the threshold included), in the order of match_results.
C1_FilterIsStableSubsequence ==
    Ran("filter_matches_node") =>
        selected_influencers = Some(SelectSeq(Get(match_results, <<>>), Qualifies))

\* C1 witness: the filter has kept a result whose score equals the
\* threshold and dropped another one.
C1_Witness ==
    /\ LastRan("filter_matches_node")
    /\ match_results # None /\ Len(match_results[1]) = 2
    /\ selected_influencers # None /\ Len(selected_influencers[1]) = 1
    /\ ExactEQ(ReadScore(selected_influencers[1][1]), match_threshold[1])
    /\ selected_influencers[1][1] = match_results[1][2]

ScoreError(r) ==
    <<"Invalid match score format for influencer", r.influencerId, r.match_score>>
ScoreErrors(rs) == [i \in DOMAIN rs |-> ScoreError(rs[i])]

\* C2: filter_matches_node drops every result whose score does not parse,
\* appends one error per such result citing its influencerId and raw score,
\* and selects among the other results as if the malformed ones were absent.
C2_MalformedScoreIsolated ==
    [][pc = "filter_matches_node" =>
          LET rs == Get(match_results, <<>>)
              good == SelectSeq(rs, WellFormed)
              alone == filter_matches_node(
                           [StateRec EXCEPT !.match_results = Some(good)])
          IN  /\ pc' \in {"generate_emails_node", "END"}
              /\ error_messages' =
                     error_messages \o ScoreErrors(SelectSeq(rs, Malformed))
              /\ selected_influencers' = alone.update.selected_influencers
              /\ \A i \in DOMAIN selected_influencers'[1] :
                     WellFormed(selected_influencers'[1][i])]_vars

\* C2 witness: a malformed result standing before a valid one was dropped
\* with its error and the valid one was still selected.
C2_Witness ==
    /\ LastRan("filter_matches_node")
    /\ match_results # None /\ Len(match_results[1]) = 2
    /\ Malformed(match_results[1][1])
    /\ selected_influencers = Some(<<match_results[1][2]>>)
    /\ error_messages # <<>>
    /\ error_messages[Len(error_messages)] = ScoreError(match_results[1][1])

IdsOf(rs) == {rs[i].influencerId : i \in DOMAIN rs}
NoRepeatedId(rs) ==
    \A i, j \in DOMAIN rs : i # j => rs[i].influencerId # rs[j].influencerId

\* C3: in every state of a run, selected_influencers is a subset (by
\* influencer id) of match_results and no result appears in it twice.
C3_SelectedSubsetNoDuplicate ==
    /\ IdsOf(Get(selected_influencers, <<>>)) \subseteq IdsOf(Get(match_results, <<>>))
    /\ NoRepeatedId(Get(selected_influencers, <<>>))

\* the ids carried by the entries of influencer_data (fixed over a run)
InputIds ==
    {influencer_data[i].influencerId[1] :
        i \in {k \in DOMAIN influencer_data : influencer_data[k].influencerId # None}}

\* C4: every influencer id in match_results, selected_influencers or
\* generated_emails is the id of an entry of influencer_data, whatever the
\* completion service returns.
C4_IdStability ==
    /\ IdsOf(Get(match_results, <<>>)) \subseteq InputIds
    /\ IdsOf(Get(selected_influencers, <<>>)) \subseteq InputIds
    /\ IdsOf(Get(generated_emails, <<>>)) \subseteq InputIds

\* C5: for every node, the product-tagging node included, the error_messages
\* held before the node ran is a prefix of the list held after its update is
\* merged: no node clears, shortens or replaces earlier entries.
C5_ErrorsAppendOnly ==
    [][(pc \in Nodes) => IsPrefix(error_messages, error_messages')]_vars

\* the key analyze_influencers_platforms_node files an entry under, and the
\* name it cites
KeyOf(d) == Get(d.influencerId, "UnknownId")
NameOfEntry(d) == Get(d.influencerName, "UnknownName")
DistinctKeys(influencer_data_list) ==
    \A i, j \in DOMAIN influencer_data_list : i # j => KeyOf(influencer_data_list[i]) # KeyOf(influencer_data_list[j])

\* the (influencer index, platform name) pairs that have content to analyze
PairsToAnalyze(influencer_data_list) ==
    UNION {{<<i, influencer_data_list[i].platforms[j][1]>> :
               j \in {k \in DOMAIN influencer_data_list[i].platforms : influencer_data_list[i].platforms[k][2] # <<>>}} :
           i \in DOMAIN influencer_data_list}
\* the pairs whose result platform_analysis pa holds
PairsAnalyzed(influencer_data_list, pa) ==
    {p \in PairsToAnalyze(influencer_data_list) :
        /\ DictHas(pa, KeyOf(influencer_data_list[p[1]]))
        /\ DictHas(DictGet(pa, KeyOf(influencer_data_list[p[1]])), p[2])
        /\ DictGet(DictGet(pa, KeyOf(influencer_data_list[p[1]])), p[2])
               = PlatformAnalysisResult(NameOfEntry(influencer_data_list[p[1]]), p[2])}
PlatformError(influencer_data_list, p) ==
    <<"Platform analysis error for", NameOfEntry(influencer_data_list[p[1]]), p[2]>>

\* C6: in analyze_influencers_platforms_node (influencers with distinct ids)
\* every pair with content ends either with its analysis record in
\* platform_analysis or with one error, whether the call raised or returned
\* something that is no analysis record; when exactly one call fails,
\* error_messages grows by exactly 1, the results of all other pairs are
\* present, those of the other platforms of the failing influencer
\* included, and the node goes on to the next node.
C6_FanOutIsolation ==
    [][(pc = "analyze_influencers_platforms_node" /\ DistinctKeys(influencer_data)
            /\ ValidMarketingWorkFlowState(StateRec)) =>
          LET todo == PairsToAnalyze(influencer_data)
              done == PairsAnalyzed(influencer_data, Get(platform_analysis', <<>>))
              grown == Len(error_messages') - Len(error_messages)
          IN  /\ pc' = "generate_influencer_profiles_node"
              /\ platform_analysis' # None
              /\ IsPrefix(error_messages, error_messages')
              /\ grown = Cardinality(todo \ done)
              /\ DictKeys(platform_analysis'[1])
                     = {KeyOf(influencer_data[i]) : i \in DOMAIN influencer_data}
              /\ (grown = 1 =>
                     \E f \in todo :
                        /\ done = todo \ {f}
                        /\ error_messages'[Len(error_messages')]
                               = PlatformError(influencer_data, f))]_vars

ProfileMissingError(r) ==
    <<"Profile missing for selected influencer", r.influencerName>>
IsProfileMissingError(e) == e[1] = "Profile missing for selected influencer"
IsOtherError(e) == e[1] # "Profile missing for selected influencer"

\* C7: generate_emails_node produces no email for a selected influencer
\* whose id has no profile, appends one 'Profile missing' error naming each
\* such influencer, and still handles every other selected influencer (an
\* email or an error of its own); with 2 selected influencers, 1 of them
\* without a profile, and no other failure, generated_emails has length 1 and
\* exactly one error is added.
C7_ProfileMissingIsolated ==
    [][pc = "generate_emails_node" =>
          LET sel == Get(selected_influencers, <<>>)
              profiles == Get(influencer_profiles, <<>>)
              NoProfile(r) == ~DictHas(profiles, r.influencerId)
              HasProfile(r) == DictHas(profiles, r.influencerId)
              without == SelectSeq(sel, NoProfile)
              with == SelectSeq(sel, HasProfile)
              new == SubSeq(error_messages', Len(error_messages) + 1, Len(error_messages'))
              emails == Get(generated_emails', <<>>)
          IN  /\ pc' = "END"
              /\ generated_emails' # None
              /\ IsPrefix(error_messages, error_messages')
              /\ SelectSeq(new, IsProfileMissingError)
                     = [i \in DOMAIN without |-> ProfileMissingError(without[i])]
              /\ \A i \in DOMAIN emails : DictHas(profiles, emails[i].influencerId)
              /\ Len(emails) + Len(SelectSeq(new, IsOtherError)) = Len(with)
              /\ (Len(sel) = 2 /\ Len(with) = 1 /\ Len(new) = 1) =>
                     /\ Len(emails) = 1
                     /\ emails[1].influencerId = with[1].influencerId]_vars

\* C7 witness: two selected influencers, the first without a profile: one
\* email, for the second, and one 'Profile missing' error naming the first.
C7_Witness ==
    /\ LastRan("generate_emails_node")
    /\ selected_influencers # None /\ Len(selected_influencers[1]) = 2
    /\ ~DictHas(influencer_profiles[1], selected_influencers[1][1].influencerId)
    /\ DictHas(influencer_profiles[1], selected_influencers[1][2].influencerId)
    /\ generated_emails # None /\ Len(generated_emails[1]) = 1
    /\ generated_emails[1][1].influencerId = selected_influencers[1][2].influencerId
    /\ Len(SelectSeq(error_messages, IsProfileMissingError)) = 1
    /\ error_messages[Len(error_messages)] = ProfileMissingError(selected_influencers[1][1])

\* C8: after filter_matches_node the run goes to generate_emails_node iff
\* selected_influencers is non-empty and ends otherwise; the routing changes
\* no field of the state; generate_emails_node never runs on an empty
\* selected_influencers.
C8_RouteOnSelection ==
    /\ [][pc = "filter_matches_node" =>
             /\ (pc' = "generate_emails_node") <=> (Get(selected_influencers', <<>>) # <<>>)
             /\ (pc' = "END") <=> (Get(selected_influencers', <<>>) = <<>>)
             /\ selected_influencers' = filter_matches_node(StateRec).update.selected_influencers
             /\ error_messages' = filter_matches_node(StateRec).update.error_messages
             /\ UNCHANGED <<product_info, influencer_data, product_tags, platform_analysis,
                            influencer_profiles, match_results, generated_emails,
                            match_threshold>>]_vars
    /\ []((pc = "generate_emails_node" \/ Ran("generate_emails_node"))
              => Get(selected_influencers, <<>>) # <<>>)

\* C8 witness: the filter dropped every match result and the run ended
\* without generate_emails_node.
C8_Witness ==
    /\ LastRan("filter_matches_node")
    /\ pc = "END"
    /\ Get(match_results, <<>>) # <<>>
    /\ selected_influencers = Some(<<>>)
    /\ generated_emails = None

Ended == pc \in {"END", "raised"}

\* C9: a workflow_app run started with an empty influencer_data ends
\* normally with platform_analysis = {}, influencer_profiles = {},
\* match_results = [], selected_influencers = [], generated_emails = [] and
\* without generate_emails_node having run.
C9_EmptyInfluencerRun ==
    (influencer_data = <<>> /\ Ended) =>
        /\ pc = "END"
        /\ platform_analysis = Some(<<>>)
        /\ influencer_profiles = Some(<<>>)
        /\ match_results = Some(<<>>)
        /\ selected_influencers = Some(<<>>)
        /\ generated_emails = Some(<<>>)
        /\ ~Ran("generate_emails_node")

ProductInfoMissingError ==
    <<"Product analysis error: product_info is missing in state.">>

\* C10: in a workflow_app run whose product_info is missing or empty,
\* analyze_product_node makes no completion call, leaves product_tags absent,
\* appends exactly one error and hands over to the next node; the matching
\* and filtering nodes do not raise on the absent product_tags, and a run
\* that reaches END has run platform analysis, profile building, matching
\* and filtering.
C10_MissingProductInfoTolerated ==
    [][(~Truthy(product_info)) =>
          /\ (pc = "analyze_product_node" =>
                 /\ pc' = "analyze_influencers_platforms_node"
                 /\ llm_calls' = llm_calls
                 /\ product_tags' = None
                 /\ error_messages' = Append(error_messages, ProductInfoMissingError))
          /\ ((/\ pc \in {"match_influencers_node", "filter_matches_node"}
               /\ ValidMarketingWorkFlowState(StateRec)) => pc' # "raised")
          /\ (pc' = "END" =>
                 \A node \in {"analyze_influencers_platforms_node",
                               "generate_influencer_profiles_node",
                               "match_influencers_node", "filter_matches_node"} :
                    \E i \in DOMAIN trace' : trace'[i] = node)]_vars

----------------------------------------------------------------------------
(* Claims on match_influencers_node *)

TagsMissingError == <<"Cannot match: Product tags missing.">>
ProfilesMissingError == <<"Cannot match: Influencer profiles missing.">>

\* C11: when product_tags is absent or influencer_profiles is empty,
\* match_influencers_node makes no completion call, returns match_results = []
\* and appends exactly one error, 'product tags missing' or 'influencer
\* profiles missing' respectively, and the run goes on to filter_matches_node.
C11_MatcherShortCircuit ==
    [][(pc = "match_influencers_node"
            /\ ValidMarketingWorkFlowState(StateRec)
            /\ (product_tags = None \/ ~Truthy(influencer_profiles))) =>
          /\ llm_calls' = llm_calls
          /\ matcher_returned' = None
          /\ match_results' = Some(<<>>)
          /\ error_messages' = Append(error_messages,
                 IF product_tags = None THEN TagsMissingError
                 ELSE ProfilesMissingError)
          /\ pc' = "filter_matches_node"]_vars

\* C11 witness: the matcher ran with tags present and an empty profile map:
\* no call, no results, the 'profiles missing' error last in the log.
C11_Witness ==
    /\ LastRan("match_influencers_node")
    /\ pc = "filter_matches_node"
    /\ product_tags # None
    /\ influencer_profiles = Some(<<>>)
    /\ matcher_returned = None
    /\ match_results = Some(<<>>)
    /\ error_messages # <<>>
    /\ error_messages[Len(error_messages)] = ProfilesMissingError

\* the items of a returned list that carry all four fields, as MatchResults
ValidItems(items) ==
    LET sel == SelectSeq(items, IsValidMatchItem)
    IN  [i \in 1..Len(sel) |-> MatchResult(sel[i])]
InvalidCount(items) == Len(items) - Len(SelectSeq(items, IsValidMatchItem))

\* C12: when the matcher's call returns a list, match_results is the valid
\* items of that list in order and one error is appended per invalid item
\* (none when no item is invalid); only a response that is no list gives
\* match_results = [] and exactly one error.
C12_MatcherListSalvaged ==
    [][(pc = "match_influencers_node" /\ matcher_returned' # None) =>
          /\ IsPrefix(error_messages, error_messages')
          /\ IF matcher_returned'[1].kind = "list"
             THEN /\ match_results' = Some(ValidItems(matcher_returned'[1].items))
                  /\ Len(error_messages') =
                         Len(error_messages) + InvalidCount(matcher_returned'[1].items)
             ELSE /\ match_results' = Some(<<>>)
                  /\ Len(error_messages') = Len(error_messages) + 1]_vars

\* C20: the product context sent to the matcher or the email composer holds
\* every original field of product_info with its original value and every
\* field of product_tags: no product field is overwritten by a tag field.
C20_ContextKeepsProductFields ==
    prompt_product_info # None =>
        /\ \A i \in DOMAIN product_info[1] :
               /\ DictHas(prompt_product_info[1], product_info[1][i][1])
               /\ DictGet(prompt_product_info[1], product_info[1][i][1])
                      = product_info[1][i][2]
        /\ product_tags # None =>
               DictKeys(product_tags[1]) \subseteq DictKeys(prompt_product_info[1])

\* C19: every run of influencer_app executes
\* analyze_influencers_platforms_node once, then
\* generate_influencer_profiles_node once, then ends, and the final state
\* carries an influencer_profiles value.
C19_InfluencerGraphLinear ==
    (entry = "influencer_app" /\ Ended) =>
        /\ pc = "END"
        /\ trace = <<"analyze_influencers_platforms_node",
                     "generate_influencer_profiles_node">>
        /\ influencer_profiles # None

----------------------------------------------------------------------------
(* Claims on intent_analysis_node *)

\* C13: with an empty email_body the node makes no completion call, returns
\* analysis_result absent with the error 'Email body is empty.', and the
\* run ends normally.
C13_EmptyBodyShortCircuit ==
    [][(pc = "analyze_reply_intent_node" /\ email_body = "") =>
          /\ llm_calls' = llm_calls
          /\ analysis_result' = None
          /\ error_message' = Some(<<"Email body is empty.">>)
          /\ pc' = "END"]_vars

\* C13 witness: a run on an empty body has ended at END with that error.
C13_Witness ==
    /\ LastRan("analyze_reply_intent_node")
    /\ email_body = ""
    /\ pc = "END"
    /\ llm_calls = 0
    /\ analysis_result = None
    /\ error_message = Some(<<"Email body is empty.">>)

\* C14: a non-absent analysis_result contains every key of the expected
\* key set; a partial intent result is never returned.
C14_NoPartialIntentResult ==
    analysis_result # None =>
        \A i \in DOMAIN ExpectedKeys : DictHas(analysis_result[1], ExpectedKeys[i])

\* C15: a failure of the completion call or of parsing its output never
\* leaves the intent node as an exception: the node returns a normal update.
C15_NoExceptionEscapes ==
    [][(pc = "analyze_reply_intent_node") => (pc' # "raised")]_vars

----------------------------------------------------------------------------
(* Claims on the panel discussion *)

\* the transcript lines held in data["chatList"]
Lines(d) == Get(d.chatList, <<>>)

\* the persona whose chain a player node runs: playNode_i runs
\* playerChains[i-1], built from role_List[i-1]
PersonaOf(node) == role_List[CHOOSE i \in DOMAIN PlayNodes : PlayNodes[i] = node]

\* C16: the ended flag is set once the message list is longer than the turn
\* ceiling; once the flag is set no player is selected any more, and the
\* next visit of the host node is the last step of the run.
C16_OneExtraHostTurn ==
    [][(/\ ((~data.isEnd /\ data'.isEnd) => Len(messages') > TurnCeiling)
        /\ ((pc = "hostNode" /\ pc' # "raised" /\ Len(messages') > TurnCeiling)
                => data'.isEnd)
        /\ (data'.isEnd => pc' \notin PlayNodeSet)
        /\ ((data.isEnd /\ pc = "hostNode") => pc' \in {"END", "raised"}))]_vars

\* C17: a visit of the host node that follows a player turn appends exactly
\* one line, holding that player's utterance under the name of the persona
\* whose node produced it; lines are only ever appended.
C17_HostFilesLastUtterance ==
    [][(/\ IsPrefix(Lines(data), Lines(data'))
        /\ ((pc = "hostNode" /\ messages # <<>>) =>
               /\ messages[Len(messages)].node \in PlayNodeSet
               /\ Lines(data') = Append(Lines(data),
                      GuestLine(PersonaOf(messages[Len(messages)].node),
                                messages[Len(messages)].content))))]_vars

\* C17 witness: the first run has ended after four player turns: the
\* transcript holds eight lines, the last one the fourth player's utterance
\* under that player's name, and two different personas have spoken.
C17_Witness ==
    /\ pc = "END" /\ runs = 1
    /\ Len(Lines(data)) = 8
    /\ Lines(data)[8] = GuestLine(PersonaOf(messages[8].node), messages[8].content)
    /\ Lines(data)[2].who = "guest" /\ Lines(data)[4].who = "guest"
    /\ Lines(data)[2].name # Lines(data)[4].name

\* C18: no state is retained across runs: a run of the panel discussion
\* works on a state built from the caller's input alone, so once the run
\* has reached END, the module holds what it held before graph.invoke was
\* called and nothing the run wrote (the ended flag, the transcript, the
\* next speaker) is left for a later run to see.
C18_NoStateAcrossRuns ==
    (entry = "graph" /\ runs = 1 /\ pc = "END") => data = InitialData

----------------------------------------------------------------------------
(* Claims on analyze_product_node's result *)

TagCategoryKeys == {"FeatureTags", "AudienceTags", "UsageScenarioTags"}

\* C21: product_tags is stored only when the parsed completion result holds
\* all three tag-category keys; it is never present in a partial shape.
C21_TagsOnlyWhenComplete ==
    product_tags # None => TagCategoryKeys \subseteq DictKeys(product_tags[1])

----------------------------------------------------------------------------
(* Claims on the reading of match_score *)

\* the reading the claim describes: surrounding whitespace and one trailing
\* "%" are stripped, the rest is converted to a number
StripTrailingPercent(s) ==
    LET t == RStrip(LStrip(s))
    IN  IF t # <<>> /\ t[Len(t)] = "%" THEN SubSeq(t, 1, Len(t) - 1) ELSE t
TrailingScore(r) == ParseFloat(StripTrailingPercent(r.match_score))
QualifiesTrailing(r) ==
    TrailingScore(r).ok
        /\ ExactGE(TrailingScore(r), match_threshold[1])
MalformedTrailing(r) == ~TrailingScore(r).ok

\* C22: filter_matches_node reads a score by stripping only a trailing "%":
\* a result whose score is no number once the trailing "%" is stripped is
\* dropped with an error, the others are kept when they reach the threshold.
C22_OnlyTrailingPercentStripped ==
    [][pc = "filter_matches_node" =>
          /\ selected_influencers' =
                 Some(SelectSeq(Get(match_results, <<>>), QualifiesTrailing))
          /\ error_messages' = error_messages
                 \o ScoreErrors(SelectSeq(Get(match_results, <<>>), MalformedTrailing))]_vars

----------------------------------------------------------------------------
(* Claims on the order of the marketing graph *)

\* the nodes in the order of the edges of workflow_builder
WorkflowOrder ==
    <<"analyze_product_node", "analyze_influencers_platforms_node",
      "generate_influencer_profiles_node", "match_influencers_node",
      "filter_matches_node", "generate_emails_node">>

\* C23: the nodes a marketing run has executed are a prefix of the fixed
\* order (so each ran at most once and none was retried), the node at the
\* cursor is the next one of that order, a run that ended normally stopped
\* after filter_matches_node or generate_emails_node, and no run executes
\* more than 6 nodes.
C23_FixedNodeOrder ==
    /\ IsPrefix(trace, WorkflowOrder)
    /\ Len(trace) <= 6
    /\ pc \in Nodes => /\ Len(trace) < Len(WorkflowOrder)
                       /\ pc = WorkflowOrder[Len(trace) + 1]
    /\ pc = "END" => \/ LastRan("generate_emails_node")
                     \/ LastRan("filter_matches_node")
C23_Witness ==
    /\ pc = "END"
    /\ trace = WorkflowOrder
C23_WitnessSkipsEmails ==
    /\ pc = "END"
    /\ LastRan("filter_matches_node")

----------------------------------------------------------------------------
(* Claims on the calls of analyze_influencers_platforms_node *)

\* the (influencer index, platform name) pairs whose content list is empty
PairsSkipped(influencer_data_list) ==
    UNION {{<<i, influencer_data_list[i].platforms[j][1]>> :
               j \in {k \in DOMAIN influencer_data_list[i].platforms :
                          influencer_data_list[i].platforms[k][2] = <<>>}} :
           i \in DOMAIN influencer_data_list}
AddedErrors(old, new) == SubSeq(new, Len(old) + 1, Len(new))

\* C24: analyze_influencers_platforms_node makes exactly one completion call
\* per (influencer, platform) pair with a non-empty content list, failed
\* calls included, and none for an empty list; every error it adds is the
\* error of a pair it called for, at most one for a pair, and a pair with an
\* empty list gets no entry in platform_analysis.
C24_OneCallPerNonEmptyPair ==
    [][(pc = "analyze_influencers_platforms_node"
            /\ ValidMarketingWorkFlowState(StateRec)) =>
          /\ llm_calls' - llm_calls = Cardinality(PairsToAnalyze(influencer_data))
          /\ Len(error_messages') - Len(error_messages)
                 <= Cardinality(PairsToAnalyze(influencer_data)
                                  \ PairsAnalyzed(influencer_data, platform_analysis'[1]))
                   \/ ~DistinctKeys(influencer_data)
          /\ \A k \in DOMAIN AddedErrors(error_messages, error_messages') :
                 \E p \in PairsToAnalyze(influencer_data) :
                    error_messages'[Len(error_messages) + k]
                        = PlatformError(influencer_data, p)
          /\ DistinctKeys(influencer_data) =>
                 \A p \in PairsSkipped(influencer_data) :
                    ~DictHas(DictGet(platform_analysis'[1], KeyOf(influencer_data[p[1]])), p[2])]_vars
\* the node ran on an influencer with one platform with content, whose call
\* failed, and one platform without content
C24_Witness ==
    /\ trace = <<"analyze_product_node", "analyze_influencers_platforms_node">>
    /\ Len(influencer_data) = 1
    /\ PairsSkipped(influencer_data) # {}
    /\ product_tags = None /\ error_messages[1][1] = "Product analysis LLM/parsing exception"
    /\ llm_calls = 2
    /\ platform_analysis = Some(<< <<KeyOf(influencer_data[1]), <<>> >> >>)
    /\ error_messages # <<>>
    /\ error_messages[Len(error_messages)] = PlatformError(influencer_data, <<1, "youtube">>)

----------------------------------------------------------------------------
(* Claims on the keys of platform_analysis *)

\* under the call outcomes oc, some entry of influencer_data with key k had
\* its platform p analyzed by a call that returned
SucceededUnder(influencer_data_list, oc, k, p) ==
    \E i \in DOMAIN influencer_data_list :
        \E j \in DOMAIN influencer_data_list[i].platforms :
            /\ KeyOf(influencer_data_list[i]) = k
            /\ influencer_data_list[i].platforms[j][1] = p
            /\ influencer_data_list[i].platforms[j][2] # <<>>
            /\ oc[<<i, j>>] # "fail"
PlatformNames(influencer_data_list) ==
    UNION {{influencer_data_list[i].platforms[j][1] :
               j \in DOMAIN influencer_data_list[i].platforms} :
           i \in DOMAIN influencer_data_list}

\* C25: after analyze_influencers_platforms_node, platform_analysis has one
\* key per id of influencer_data (ids shared or missing included), and under
\* each key exactly the platforms that were analyzed successfully for an
\* influencer of that id: the node's errors and its map are those of one
\* and the same assignment of outcomes to the calls.
C25_SuccessesKeptUnderKey ==
    [][(pc = "analyze_influencers_platforms_node"
            /\ ValidMarketingWorkFlowState(StateRec)) =>
          \E oc \in [PlatformPairs(influencer_data) -> CallOutcomes] :
              /\ error_messages' = InfluencerLoop(influencer_data, 1, oc,
                                       [all |-> <<>>, errors |-> error_messages,
                                        calls |-> 0]).errors
              /\ DictKeys(platform_analysis'[1])
                     = {KeyOf(influencer_data[i]) : i \in DOMAIN influencer_data}
              /\ \A k \in DictKeys(platform_analysis'[1]) :
                     DictKeys(DictGet(platform_analysis'[1], k))
                         = {p \in PlatformNames(influencer_data) :
                               SucceededUnder(influencer_data, oc, k, p)}]_vars

----------------------------------------------------------------------------
(* Claims on the accounting of generate_influencer_profiles_node *)

KeysWithResults(pa) == {k \in DictKeys(pa) : DictGet(pa, k) # <<>>}
KeysWithoutResults(pa) == {k \in DictKeys(pa) : DictGet(pa, k) = <<>>}
NameOfKey(k) == DictGet(NameMap(influencer_data, 1, <<>>), k)
Occurrences(seq, x) == Cardinality({i \in DOMAIN seq : seq[i] = x})

\* C26: generate_influencer_profiles_node makes one call per key of
\* platform_analysis with a non-empty sub-map; a key with an empty sub-map
\* gets no profile and exactly one "No platform data" error, a key whose call
\* failed gets no profile and exactly one "Profile generation error", every
\* other key with results gets its profile, and nothing that is no profile
\* is stored and no other error added.
C26_ProfilesAccountedPerInfluencer ==
    [][(pc = "generate_influencer_profiles_node" /\ Truthy(platform_analysis)
            /\ ValidMarketingWorkFlowState(StateRec)) =>
          LET pa == platform_analysis[1]
              profiles == influencer_profiles'[1]
              added == AddedErrors(error_messages, error_messages')
              failed == KeysWithResults(pa) \ DictKeys(profiles)
          IN  /\ llm_calls' - llm_calls = Cardinality(KeysWithResults(pa))
              /\ DictKeys(profiles) \subseteq KeysWithResults(pa)
              /\ \A k \in DictKeys(profiles) :
                     DictGet(profiles, k) = InfluencerProfile(k, NameOfKey(k))
              /\ IsPrefix(error_messages, error_messages')
              /\ Len(added) = Cardinality(KeysWithoutResults(pa)) + Cardinality(failed)
              /\ \A k \in KeysWithoutResults(pa) :
                     Occurrences(added, <<"No platform data to generate profile for",
                                          NameOfKey(k)>>) = 1
              /\ \A k \in failed :
                     Occurrences(added, <<"Profile generation error for",
                                          NameOfKey(k)>>) = 1]_vars

----------------------------------------------------------------------------
(* Claims on the frame of the node updates *)

\* C27: a step of the marketing graph never changes product_info,
\* influencer_data or match_threshold, and changes none of product_tags,
\* platform_analysis, influencer_profiles, match_results,
\* selected_influencers, generated_emails except the one field the node that
\* runs writes.
C27_NodesWriteOwnFieldOnly ==
    [][(pc \in Nodes) =>
          /\ product_info' = product_info
          /\ influencer_data' = influencer_data
          /\ match_threshold' = match_threshold
          /\ pc # "analyze_product_node" => product_tags' = product_tags
          /\ pc # "analyze_influencers_platforms_node"
                 => platform_analysis' = platform_analysis
          /\ pc # "generate_influencer_profiles_node"
                 => influencer_profiles' = influencer_profiles
          /\ pc # "match_influencers_node" => match_results' = match_results
          /\ pc # "filter_matches_node"
                 => selected_influencers' = selected_influencers
          /\ pc # "generate_emails_node" => generated_emails' = generated_emails]_vars
\* all six nodes have run and every field holds something a node wrote
C27_Witness ==
    /\ trace = WorkflowOrder
    /\ Truthy(product_info) /\ influencer_data # <<>>
    /\ product_tags # None
    /\ Truthy(platform_analysis) /\ Truthy(influencer_profiles)
    /\ Truthy(match_results) /\ Truthy(selected_influencers)
    /\ Truthy(generated_emails)

----------------------------------------------------------------------------
(* Claims on the length of a panel run *)

\* host and player turns alternate, the host first
Alternates(tr) ==
    \A i \in DOMAIN tr : IF i % 2 = 1 THEN tr[i] = "hostNode"
                                       ELSE tr[i] \in PlayNodeSet

\* C28: a panel run never takes more than 9 steps; the host routes to the
\* player node of the speaker it sampled and a player hands back to the
\* host; the ended flag flips on the 7th step, a host turn, with 7 messages;
\* a run that reaches the end did 5 host turns and 4 player turns in
\* alternation, the host first and last, and leaves 9 messages and 8
\* transcript lines, whichever speakers were sampled.
C28_PanelRunLengthFixed ==
    [][(/\ Len(trace') <= 9
        /\ Alternates(trace')
        /\ ((pc = "hostNode" /\ pc' \in PlayNodeSet)
               => data'.player = Some(PersonaOf(pc')))
        /\ (pc \in PlayNodeSet => pc' \in {"hostNode", "raised"})
        /\ ((~data.isEnd /\ data'.isEnd)
               => pc = "hostNode" /\ Len(trace') = 7 /\ Len(messages') = 7)
        /\ (pc' = "END"
               => /\ Len(trace') = 9
                  /\ trace'[9] = "hostNode"
                  /\ Len(messages') = 9
                  /\ Len(Lines(data')) = 8
                  /\ data'.isEnd))]_vars
\* a run has ended after nine steps in which different speakers were sampled
C28_Witness ==
    /\ pc = "END" /\ runs = 1
    /\ Len(trace) = 9 /\ data.isEnd
    /\ trace[2] # trace[4] /\ trace[6] = trace[8]

----------------------------------------------------------------------------
(* Claims on the accounting of generate_emails_node *)

\* the elements of a set of indices in increasing order
Ascending(S) ==
    CHOOSE f \in [1..Cardinality(S) -> S] :
        \A i, j \in 1..Cardinality(S) : i < j => f[i] < f[j]
EmailErrorKinds ==
    {"Profile missing for selected influencer", "Email generation failed for",
     "Email generation error for"}

\* C29: generate_emails_node returns, and splits the selected influencers
\* in two: those it mailed, whose emails are generated_emails in the order
\* of selected_influencers, each tagged with the influencer's id and name,
\* and those it could not mail, each with exactly one added error; so
\* emails plus added errors number the selected influencers.
C29_EveryInfluencerMailedOrReported ==
    [][pc = "generate_emails_node" =>
          LET sel == Get(selected_influencers, <<>>)
              added == AddedErrors(error_messages, error_messages')
          IN  /\ pc' = "END"
              /\ generated_emails' # None
              /\ IsPrefix(error_messages, error_messages')
              /\ Len(generated_emails'[1]) + Len(added) = Len(sel)
              /\ \E mailed \in SUBSET DOMAIN sel :
                     LET m == Ascending(mailed)
                         e == Ascending(DOMAIN sel \ mailed)
                     IN  /\ Len(generated_emails'[1]) = Len(m)
                         /\ Len(added) = Len(e)
                         /\ \A i \in DOMAIN m :
                                generated_emails'[1][i]
                                    = GeneratedEmail(sel[m[i]].influencerId,
                                                     sel[m[i]].influencerName)
                         /\ \A i \in DOMAIN e :
                                /\ added[i][1] \in EmailErrorKinds
                                /\ added[i][2] = sel[e[i]].influencerName]_vars
\* the node ran on two selected influencers, reported the first and mailed
\* the second
C29_Witness ==
    /\ LastRan("generate_emails_node")
    /\ Len(selected_influencers[1]) = 2
    /\ Len(generated_emails[1]) = 1
    /\ generated_emails[1][1].influencerId = selected_influencers[1][2].influencerId
    /\ selected_influencers[1][1].influencerId # selected_influencers[1][2].influencerId
    /\ error_messages # <<>>
    /\ error_messages[Len(error_messages)][2] = selected_influencers[1][1].influencerName

----------------------------------------------------------------------------
(* Claims on crawl jobs *)

StatusMoves ==
    {<<"submitted", "running">>, <<"running", "completed">>, <<"running", "failed">>}
JobCarriesResult(job) == job.result # None /\ ~HasError(job.result[1])
JobCarriesError(job) ==
    /\ job.result # None /\ HasError(job.result[1])
    /\ job.message # SubmittedJob.message

\* C30: a job's status only moves submitted -> running -> completed or
\* failed and never leaves completed or failed; a job whose task is over is
\* completed or failed; a completed job carries a result without error and
\* a failed job an error result and an error message, in the job store and
\* in every answer of a status query; a status query changes neither the
\* status nor the result of a job.
C30_CrawlJobStatusMachine ==
    [][\A job_id \in JobIds :
          /\ (jobs[job_id] # None) =>
                 /\ jobs'[job_id] # None
                 /\ (jobs'[job_id][1].status # jobs[job_id][1].status
                        => <<jobs[job_id][1].status, jobs'[job_id][1].status>>
                               \in StatusMoves)
                 /\ (task' = task
                        => /\ jobs'[job_id][1].status = jobs[job_id][1].status
                           /\ jobs'[job_id][1].result = jobs[job_id][1].result)
          /\ (task'[job_id].pc = "done")
                 => jobs'[job_id][1].status \in {"completed", "failed"}
          /\ (jobs'[job_id] # None /\ jobs'[job_id][1].status = "completed")
                 => JobCarriesResult(jobs'[job_id][1])
          /\ (jobs'[job_id] # None /\ jobs'[job_id][1].status = "failed")
                 => JobCarriesError(jobs'[job_id][1])
          /\ (crawl_response' # None /\ crawl_response'[1].code = 200
                 /\ crawl_response'[1].status = "completed")
                 => JobCarriesResult(crawl_response'[1])]_vars

====
